---------------------------- MODULE Spec2Model ----------------------------
(* Texture statistics and mesh/pixel picking of the GL replay driver         *)
(* (renderdoc/driver/gl/gl_debug.cpp), as a state machine.                    *)
(*                                                                            *)
(* One action per request handler.  A handler runs to completion on the       *)
(* calling thread, so each action is the whole handler; the order of the GL   *)
(* commands inside it is kept in cmds, the command stream of the last         *)
(* request.  Floats are exact rationals held as integers in units of 1e-6.    *)
EXTENDS Integers, Sequences, FiniteSets, TLC

VARIABLES
  HasExt,          \* HasExt[ARB_compute_shader]
  IsGLES,          \* IsGLES
  build,           \* how the driver's GLSL compiler treats the debug shaders
  rayPos,          \* world-space ray origin PickVertex derives from the camera
  cfg,             \* the MeshDisplay the caller passes to PickVertex
  hits,            \* the candidates the mesh pick pass finds for cfg
  m_Textures,      \* m_pDriver->m_Textures: resource id -> texture details
  phase,           \* "constructed", "ready" (after InitDebugData), "deleted"
  messages,        \* m_pDriver->AddDebugMessage log
  progs,           \* DebugData program handles
  maxLevel,        \* TEXTURE_MAX_LEVEL of every GL texture object
  ubo,             \* contents of DebugData.UBOs[0]
  minmaxTileResult,\* contents of DebugData.minmaxTileResult
  minmaxResult,    \* contents of DebugData.minmaxResult
  histogramBuf,    \* contents of DebugData.histogramBuf (uvec4 per bucket)
  pickResultBuf,   \* contents of DebugData.pickResultBuf
  pickIB,          \* DebugData.pickIBBuf / pickIBSize and the indices uploaded
  pickVB,          \* DebugData.pickVBBuf / pickVBSize
  buffers,         \* names of the GL buffer objects that exist
  op,              \* the last request
  req,             \* its arguments
  ret,             \* its return value
  out,             \* the output arguments of the last request, Unwritten on entry
  cmds,            \* GL commands the last request issued, in order
  idx,             \* PickVertex's outidxs, minIndex, maxIndex after the index loop
  px,              \* what the glReadPixels calls of the last request returned
  outSize,         \* DebugData.outWidth, DebugData.outHeight
  viewport,        \* width and height of the debug context's glViewport
  replayFBO,       \* the replay context's draw and read framebuffer bindings
  m_state,         \* BaseProtocolClient::m_state
  m_pSession,      \* m_pSession: the session held, NullSession for none
  m_connectResult, \* m_connectResult
  m_pendingOperationEvent, \* m_pendingOperationEvent is signalled
  sessions,        \* the message channel's sessions and how far each has got
  pc,              \* where the client thread is
  cop,             \* the client method entered last
  entry,           \* m_state and m_pSession when it was entered
  result,          \* Connect's result: its return value once Connect has returned
  retries,         \* Disconnect's retries
  waits,           \* waits on the event the method has entered
  calls,           \* what the method called, in order
  orphanRet,       \* where Orphan returns to
  signalled,       \* who signalled the event last, and the client's state then
  wokenBy,         \* the callback whose signal ended Connect's wait
  callback         \* the callback delivered last

env   == <<HasExt, IsGLES, build, rayPos, cfg, hits>>
gpu   == <<m_Textures, phase, messages, progs, maxLevel, ubo, minmaxTileResult, minmaxResult,
           histogramBuf, pickResultBuf, pickIB, pickVB, buffers>>
call  == <<op, req, ret, out, cmds, idx, px>>
ctx   == <<outSize, viewport, replayFBO>>
client == <<m_state, m_pSession, m_connectResult, m_pendingOperationEvent, sessions, pc,
            cop, entry, result, retries, waits, calls, orphanRet, signalled, wokenBy,
            callback>>
vars  == <<env, gpu, call, ctx, client>>

-----------------------------------------------------------------------------
(* Numbers *)

\* 1e-6f of line 1096: a float x is held as the integer x * Micro
Micro == 1000000

FloatOf(n) == n * Micro

Min2(a, b) == IF a < b THEN a ELSE b
Max2(a, b) == IF a > b THEN a ELSE b

\* the value no field of a freshly invalidated or never written buffer has
Undef == -999

\* Widths are scaled down to keep every value inside TLC's integers: a byte
\* has 4 bits (values 0..15), so uint16_t is 8 bits and uint32_t 16 bits.
BYTE == 16
UINT32 == BYTE * BYTE * BYTE * BYTE

\* ~0U, PickVertex's "no vertex" return value
NONE == UINT32 - 1

-----------------------------------------------------------------------------
(* The capture's resources: m_pDriver->m_Textures and GetTexture()            *)

NullId == 0

\* resource ids callers pass to the statistics requests: the null id, the two
\* colour textures, and an id the capture has no texture for
ResourceIds == {NullId, 1, 2, 3}

\* texid 1: a 2D texture with two mips; texid 2: a renderbuffer with its
\* staging texture renderbufferReadTex and blit FBOs renderbufferFBOs;
\* texids 4, 5, 6: the three formats PickPixel reads the stencil of
CaptureTextures ==
  (1 :> [curType |-> "TEXTURE_2D", name |-> 11, width |-> 2, height |-> 1,
         mips |-> 2, renderbufferReadTex |-> 0, renderbufferFBOs |-> <<0, 0>>,
         internalFormat |-> "RGBA32F"])
  @@
  (2 :> [curType |-> "RENDERBUFFER", name |-> 12, width |-> 2, height |-> 1,
         mips |-> 1, renderbufferReadTex |-> 13, renderbufferFBOs |-> <<21, 22>>,
         internalFormat |-> "RGBA32F"])
  @@
  (4 :> [curType |-> "TEXTURE_2D", name |-> 14, width |-> 2, height |-> 1,
         mips |-> 1, renderbufferReadTex |-> 0, renderbufferFBOs |-> <<0, 0>>,
         internalFormat |-> "DEPTH24_STENCIL8"])
  @@
  (5 :> [curType |-> "TEXTURE_2D", name |-> 15, width |-> 2, height |-> 1,
         mips |-> 1, renderbufferReadTex |-> 0, renderbufferFBOs |-> <<0, 0>>,
         internalFormat |-> "DEPTH32F_STENCIL8"])
  @@
  (6 :> [curType |-> "TEXTURE_2D", name |-> 16, width |-> 2, height |-> 1,
         mips |-> 1, renderbufferReadTex |-> 0, renderbufferFBOs |-> <<0, 0>>,
         internalFormat |-> "STENCIL_INDEX8"])

\* the entry std::map::operator[] inserts for an id that has none
DefaultTexture ==
  [curType |-> "NONE", name |-> 0, width |-> 0, height |-> 0,
   mips |-> 1, renderbufferReadTex |-> 0, renderbufferFBOs |-> <<0, 0>>,
   internalFormat |-> "NONE"]

\* the GL texture objects that carry a TEXTURE_MAX_LEVEL (0: the default texture)
TexNames == {0, 11, 13}

\* requested mip levels
MaxMip == 1
Mips == 0..MaxMip

\* texel values of a texture object's mip level (one channel)
TexData(texname, mip) ==
  IF texname = 11
    THEN IF mip = 0 THEN <<FloatOf(-1), FloatOf(0), FloatOf(1), FloatOf(1)>>
                    ELSE <<FloatOf(0)>>
    ELSE IF texname = 13 /\ mip = 0 THEN <<FloatOf(-1), FloatOf(1)>>
    ELSE IF texname \in {14, 15} /\ mip = 0 THEN <<FloatOf(1), 500000>>
    ELSE <<>>

\* stencil values of a texture object's mip level (0..255)
StencilData(texname, mip) ==
  IF texname \in {14, 15, 16} /\ mip = 0 THEN <<255, 3>> ELSE <<>>


-----------------------------------------------------------------------------
(* GL objects owned by DebugData, and the command stream                      *)

\* buffer names glGenBuffers returned in InitDebugData
DebugData ==
  [UBO0 |-> 31, minmaxTileResult |-> 32, minmaxResult |-> 33,
   histogramBuf |-> 34, pickResultBuf |-> 35,
   axisFrustumBuffer |-> 36, triHighlightBuffer |-> 37, feedbackBuffer |-> 38,
   pickPixelFBO |-> 51]

\* the two GL contexts MakeCurrentReplayContext switches between
ReplayCtx == 1
DebugCtx == 2

\* one GL command: its name and up to two operands
Cmd(c, x, y) == [c |-> c, x |-> x, y |-> y]

\* GL_SHADER_STORAGE_BARRIER_BIT, GL_ATOMIC_COUNTER_BARRIER_BIT
SSBO_BIT == 8192
ATOMIC_BIT == 4096

\* DebugRenderData::maxMeshPicks, scaled down: capacity of the candidate list
maxMeshPicks == 3

\* a list slot nothing was ever stored in
StaleCand == [vertid |-> Undef, w1 |-> Undef, w2 |-> Undef, w3 |-> Undef]

\* HGRAM_NUM_BUCKETS of debuguniforms.h, scaled down
HGRAM_NUM_BUCKETS == 4

UBOFields ==
  {"HistogramSlice", "HistogramMip", "HistogramNumSamples", "HistogramSample",
   "HistogramMin", "HistogramMax", "HistogramChannels", "HistogramFlags",
   "ResolutionX", "ResolutionY", "ResolutionZ",
   "rayPosX", "rayPosY", "rayPosZ", "rayDir", "use_indices", "numVerts",
   "meshMode", "unproject", "mvp", "coords", "viewport"}

\* the fields of HistogramUBOData, the block GetMinMax and GetHistogram map
HistogramBlock ==
  {"HistogramSlice", "HistogramMip", "HistogramNumSamples", "HistogramSample",
   "HistogramMin", "HistogramMax", "HistogramChannels", "HistogramFlags",
   "ResolutionX", "ResolutionY", "ResolutionZ"}

\* the fields of MeshPickUBOData, the block PickVertex maps
MeshPickBlock == UBOFields \ HistogramBlock

\* glMapBufferRange(... GL_MAP_INVALIDATE_BUFFER_BIT): nothing of the old
\* contents survives
UBOInvalid == [f \in UBOFields |-> Undef]

\* the fields a request writes into the mapped block, the others undefined
UBOWrite(fields) ==
  [f \in UBOFields |-> IF f \in DOMAIN fields THEN fields[f] ELSE UBOInvalid[f]]

-----------------------------------------------------------------------------
(* The compute passes (glsl/minmaxtile.comp, minmaxresult.comp,               *)
(* histogram.comp): what a dispatch leaves in its output buffer               *)

RECURSIVE SeqMin(_), SeqMax(_)
SeqMin(s) == IF Len(s) = 1 THEN s[1] ELSE Min2(s[1], SeqMin(Tail(s)))
SeqMax(s) == IF Len(s) = 1 THEN s[1] ELSE Max2(s[1], SeqMax(Tail(s)))

\* phase 1: per-tile partial min/max of the sampled mip (one tile here)
MinMaxTilePass(texname, mip) ==
  LET d == TexData(texname, mip)
  IN  IF d = <<>> THEN <<Undef, Undef>> ELSE <<SeqMin(d), SeqMax(d)>>

\* phase 2: reduce the tile results to the final result
MinMaxResultPass(tiles) == tiles

\* bucket of value v for the uploaded range [lo, hi): normalise, multiply by
\* the number of buckets; values outside the range are not counted
Bucket(v, lo, hi) == ((v - lo) * HGRAM_NUM_BUCKETS) \div (hi - lo)

Counted(v, lo, hi) == lo < hi /\ v >= lo /\ v < hi

\* the histogram pass adds one to the x component of the bucket of every
\* counted texel of the sampled mip; buf has 4 words per bucket
RECURSIVE HistogramAdd(_, _, _, _)
HistogramAdd(buf, d, lo, hi) ==
  IF d = <<>> THEN buf
  ELSE LET v == Head(d)
           w == 4 * Bucket(v, lo, hi) + 1
       IN  HistogramAdd(IF Counted(v, lo, hi) THEN [buf EXCEPT ![w] = @ + 1] ELSE buf,
                        Tail(d), lo, hi)

HistogramPass(buf, texname, mip, u) ==
  HistogramAdd(buf, TexData(texname, mip), u.HistogramMin, u.HistogramMax)

\* glClearBufferData(..., &zero)
ZeroBuf == [i \in 1..(4 * HGRAM_NUM_BUCKETS) |-> 0]

\* contents of a buffer created with glNamedBufferDataEXT(..., NULL, ...)
UninitBuf == [i \in 1..(4 * HGRAM_NUM_BUCKETS) |-> Undef]

-----------------------------------------------------------------------------
(* GLReplay::InitDebugData                                                    *)

WarnMinMax   == "GL_ARB_compute_shader not supported, disabling min/max and histogram features."
WarnMS       == "GL_ARB_compute_shader not supported, disabling 2DMS save/load."
WarnMeshPick == "GL_ARB_compute_shader not supported, disabling mesh picking."

\* bool glesShadersAreComplete = !IsGLES
glesShadersAreComplete == ~IsGLES

\* the compute programs are built only under this condition (lines 436, 512, 530)
BuildsCompute == glesShadersAreComplete /\ HasExt

\* the portability warnings InitDebugData records for compute
InitWarnings ==
  (IF ~HasExt THEN <<WarnMinMax>> ELSE <<>>)
  \o (IF BuildsCompute THEN <<>> ELSE <<WarnMS>>)
  \o (IF BuildsCompute THEN <<>> ELSE <<WarnMeshPick>>)

\* outcomes of a program build: the shaders compile and the program links,
\* a shader fails to compile, or the shaders compile and the link fails
Builds == {"ok", "compile", "link"}

\* CreateShader, lines 41-67: 0 on a compile error, else the shader object
CreateShader(shader) == IF build = "compile" THEN 0 ELSE shader

\* CreateCShaderProgram, lines 69-102: 0 when the shader is 0; a link error
\* is logged and the program object is returned all the same
CreateCShaderProgram(shader, program) ==
  IF CreateShader(shader) = 0 THEN 0 ELSE program

\* CreateShaderProgram, lines 111-182: 0 when the vertex or the fragment
\* shader is 0; a link error is logged and the program object is returned
CreateShaderProgram(vs, fs, program) ==
  IF CreateShader(vs) = 0 THEN 0
  ELSE IF CreateShader(fs) = 0 THEN 0
  ELSE program

\* program handles after InitDebugData: RDCEraseEl zeroes the arrays, and a
\* handle is set only when the program is built
InitPrograms ==
  [minmaxTile   |-> IF BuildsCompute THEN CreateCShaderProgram(201, 101) ELSE 0,
   histogram    |-> IF BuildsCompute THEN CreateCShaderProgram(202, 102) ELSE 0,
   minmaxResult |-> IF BuildsCompute THEN CreateCShaderProgram(203, 103) ELSE 0,
   meshPick     |-> IF BuildsCompute THEN CreateCShaderProgram(204, 104) ELSE 0,
   texDisplay   |-> CreateShaderProgram(205, 206, 105)]

NoPrograms ==
  [minmaxTile |-> 0, histogram |-> 0, minmaxResult |-> 0, meshPick |-> 0,
   texDisplay |-> 0]

\* glUseProgram(h) makes a program current only if h is a linked program;
\* glDispatchCompute without a current compute program is an error and runs
\* nothing
ProgramRuns(h) == h # 0 /\ build = "ok"

\* DebugData.pickResultBuf: the atomic counter and the candidate list
NoPickResult == [numResults |-> Undef, results |-> [k \in 1..maxMeshPicks |-> StaleCand]]

NoStaging == [buf |-> 0, size |-> 0]

\* the buffers InitDebugData generates: UBOs (382), the min/max and histogram
\* buffers (495-497), pickResultBuf when the pick program exists (551-553),
\* and the mesh and feedback buffers (567, 610, 697)
InitBuffers ==
  {DebugData.UBO0, DebugData.minmaxTileResult, DebugData.minmaxResult,
   DebugData.histogramBuf, DebugData.axisFrustumBuffer,
   DebugData.triHighlightBuffer, DebugData.feedbackBuffer}
  \cup (IF InitPrograms.meshPick # 0 THEN {DebugData.pickResultBuf} ELSE {})

InitDebugData ==
  /\ phase = "constructed"
  /\ phase' = "ready"
  /\ messages' = messages \o InitWarnings
  /\ progs' = InitPrograms
  /\ ubo' = UBOInvalid
  /\ minmaxTileResult' = <<Undef, Undef>>
  /\ minmaxResult' = <<Undef, Undef>>
  /\ histogramBuf' = UninitBuf
  /\ pickResultBuf' = NoPickResult
  /\ pickIB' = NoStaging
  /\ pickVB' = NoStaging
  /\ buffers' = buffers \cup InitBuffers
  /\ outSize' = <<0, 0>>
  /\ UNCHANGED <<client, env, m_Textures, maxLevel, call, viewport, replayFBO>>

-----------------------------------------------------------------------------
(* GLReplay::GetMinMax                                                        *)

\* no glReadPixels call was made
NoPixels == [pixel |-> << >>, stencilpixel |-> << >>]

\* the caller's output arguments (minval/maxval, histogram, pixel) as they are
\* when a request is entered: nothing written yet
Unwritten ==
  [minval |-> Undef, maxval |-> Undef, histogram |-> << >>, pixel |-> Undef]

Slices  == {0}
Samples == {0}

\* texid == ResourceId() || m_Textures.find(texid) == m_Textures.end()
UnknownTexture(texid) == texid = NullId \/ texid \notin DOMAIN m_Textures

\* the early returns of GetMinMax, lines 832-836
GetMinMaxRejects(r) == UnknownTexture(r.texid) \/ ~HasExt

\* the texture object the compute pass samples: the renderbuffer's staging
\* texture, or the texture itself
SampledTex(texid) ==
  IF m_Textures[texid].curType = "RENDERBUFFER"
    THEN m_Textures[texid].renderbufferReadTex
    ELSE m_Textures[texid].name

\* the blit without lines 891-892
BlitCmds_NoRestore(texid, fbo) ==
  IF m_Textures[texid].curType = "RENDERBUFFER"
    THEN << Cmd("MakeCurrent", ReplayCtx, 0),
            Cmd("GetFramebufferBindings", fbo[1], fbo[2]),
            Cmd("BindDrawFramebuffer", m_Textures[texid].renderbufferFBOs[2], 0),
            Cmd("BindReadFramebuffer", m_Textures[texid].renderbufferFBOs[1], 0),
            Cmd("BlitFramebuffer", 0, 0) >>
    ELSE << >>

\* the renderbuffer blit, lines 874-896, on the replay context: fbo is the
\* pair curDrawFBO, curReadFBO that glGetIntegerv reads and the last two
\* binds put back
BlitCmds(texid, fbo) ==
  IF m_Textures[texid].curType = "RENDERBUFFER"
    THEN << Cmd("MakeCurrent", ReplayCtx, 0),
            Cmd("GetFramebufferBindings", fbo[1], fbo[2]),
            Cmd("BindDrawFramebuffer", m_Textures[texid].renderbufferFBOs[2], 0),
            Cmd("BindReadFramebuffer", m_Textures[texid].renderbufferFBOs[1], 0),
            Cmd("BlitFramebuffer", 0, 0),
            Cmd("BindDrawFramebuffer", fbo[1], 0),
            Cmd("BindReadFramebuffer", fbo[2], 0) >>
    ELSE << >>

\* the context a command is issued on: the one the last MakeCurrent before it
\* selected (0: the stream has not selected one yet)
CurrentCtx(cs, i) ==
  LET ms == {j \in 1..(i - 1) : cs[j].c = "MakeCurrent"}
  IN  IF ms = {} THEN 0 ELSE cs[CHOOSE j \in ms : \A k \in ms : k <= j].x

\* the name the last bind of one framebuffer target on the replay context left
LastBind(cs, target, cur) ==
  LET bs == {i \in DOMAIN cs : /\ cs[i].c \in {target, "BindFramebuffer"}
                               /\ CurrentCtx(cs, i) = ReplayCtx}
  IN  IF bs = {} THEN cur ELSE cs[CHOOSE i \in bs : \A k \in bs : k <= i].x

\* the replay context's draw and read bindings after a command stream
FBOAfter(cs, fbo) ==
  << LastBind(cs, "BindDrawFramebuffer", fbo[1]),
     LastBind(cs, "BindReadFramebuffer", fbo[2]) >>

RDCMAX(a, b) == IF a > b THEN a ELSE b
RDCMIN(a, b) == IF a < b THEN a ELSE b
RDCCLAMP(v, lo, hi) == RDCMIN(RDCMAX(v, lo), hi)

RECURSIVE Shr(_, _)
Shr(a, n) == IF n = 0 THEN a ELSE Shr(a \div 2, n - 1)

\* the HistogramUBOData fields both statistics requests write the same way
CommonUBO(r) ==
  [ResolutionX         |-> RDCMAX(Shr(m_Textures[r.texid].width, r.mip), 1),
   ResolutionY         |-> RDCMAX(Shr(m_Textures[r.texid].height, r.mip), 1),
   ResolutionZ         |-> 1,
   HistogramSlice      |-> FloatOf(r.sliceFace) + 1000,
   HistogramMip        |-> r.mip,
   HistogramNumSamples |-> 1,
   HistogramSample     |-> RDCCLAMP(r.sample, 0, 0)]

\* lines 905-919: GetMinMax leaves HistogramFlags unwritten
GetMinMaxUBO(r) ==
  UBOWrite(CommonUBO(r) @@
           [HistogramMin |-> FloatOf(0), HistogramMax |-> FloatOf(1),
            HistogramChannels |-> 15])

\* int clampmaxlevel = details.mips - 1
ClampMaxLevel(texid) == m_Textures[texid].mips - 1

\* TEXTURE_MAX_LEVEL read and left as it is
ClampCmds_NeverSet(tex, clamp, lvl) == << Cmd("GetTexParameterMaxLevel", tex, lvl) >>

\* lines 948-962: TEXTURE_MAX_LEVEL is read, and set when it differs from the clamp
ClampCmds(tex, clamp, lvl) ==
  << Cmd("GetTexParameterMaxLevel", tex, lvl) >>
  \o (IF clamp # lvl THEN << Cmd("TexParameterMaxLevel", tex, clamp) >> ELSE << >>)

\* the request returning without the restore of lines 983-984
RestoreCmds_Never(tex, clamp, lvl) == << >>

\* lines 983-984: restored when it was changed (maxlevel >= 0)
RestoreCmds(tex, clamp, lvl) ==
  IF clamp # lvl /\ lvl >= 0 THEN << Cmd("TexParameterMaxLevel", tex, lvl) >> ELSE << >>

\* TEXTURE_MAX_LEVEL of tex after the commands cs, when it was lvl before them
RECURSIVE LevelAfter(_, _, _)
LevelAfter(cs, tex, lvl) ==
  IF cs = << >> THEN lvl
  ELSE LevelAfter(Tail(cs), tex,
                  IF Head(cs).c = "TexParameterMaxLevel" /\ Head(cs).x = tex
                    THEN Head(cs).y ELSE lvl)

\* the two dispatches without the barrier between them
GetMinMaxDispatchCmds_NoPhaseBarrier ==
  << Cmd("BindBufferBase", 0, DebugData.minmaxTileResult),
     Cmd("UseProgram", progs.minmaxTile, 0),
     Cmd("DispatchCompute", progs.minmaxTile, 0),
     Cmd("BindBufferBase", 0, DebugData.minmaxResult),
     Cmd("BindBufferBase", 1, DebugData.minmaxTileResult),
     Cmd("UseProgram", progs.minmaxResult, 0),
     Cmd("DispatchCompute", progs.minmaxResult, 0),
     Cmd("MemoryBarrier", SSBO_BIT, 0),
     Cmd("GetBufferSubData", DebugData.minmaxResult, 0) >>

\* lines 964-981: tile dispatch, barrier, result dispatch, barrier, readback
GetMinMaxDispatchCmds ==
  << Cmd("BindBufferBase", 0, DebugData.minmaxTileResult),
     Cmd("UseProgram", progs.minmaxTile, 0),
     Cmd("DispatchCompute", progs.minmaxTile, 0),
     Cmd("MemoryBarrier", SSBO_BIT, 0),
     Cmd("BindBufferBase", 0, DebugData.minmaxResult),
     Cmd("BindBufferBase", 1, DebugData.minmaxTileResult),
     Cmd("UseProgram", progs.minmaxResult, 0),
     Cmd("DispatchCompute", progs.minmaxResult, 0),
     Cmd("MemoryBarrier", SSBO_BIT, 0),
     Cmd("GetBufferSubData", DebugData.minmaxResult, 0) >>

\* lines 898-946: the parameter upload and the texture binding, on the debug
\* context
BindCmds(tex) ==
  << Cmd("MakeCurrent", DebugCtx, 0),
     Cmd("BindBufferBase", 2, DebugData.UBO0), Cmd("MapUnmapUBO", 0, 0),
     Cmd("BindTexture", tex, 0) >>

GetMinMaxCmds(r, lvl) ==
  LET tex   == SampledTex(r.texid)
      clamp == ClampMaxLevel(r.texid)
  IN  BlitCmds(r.texid, replayFBO) \o BindCmds(tex) \o ClampCmds(tex, clamp, lvl)
      \o GetMinMaxDispatchCmds \o RestoreCmds(tex, clamp, lvl)

GetMinMax(r) ==
  /\ phase = "ready"
  /\ op' = "GetMinMax"
  /\ req' = r
  /\ IF GetMinMaxRejects(r)
       THEN /\ ret' = FALSE
            /\ cmds' = << >>
            /\ out' = Unwritten
            /\ UNCHANGED <<ubo, maxLevel, minmaxTileResult, minmaxResult>>
       ELSE LET tex   == SampledTex(r.texid)
                tiles == MinMaxTilePass(tex, r.mip)
            IN  /\ ubo' = GetMinMaxUBO(r)
                /\ cmds' = GetMinMaxCmds(r, maxLevel[tex])
                /\ minmaxTileResult' =
                     IF ProgramRuns(progs.minmaxTile) THEN tiles ELSE minmaxTileResult
                /\ minmaxResult' =
                     IF ProgramRuns(progs.minmaxResult)
                       THEN MinMaxResultPass(minmaxTileResult') ELSE minmaxResult
                /\ maxLevel' = [maxLevel EXCEPT ![tex] = LevelAfter(cmds', tex, @)]
                /\ out' = [Unwritten EXCEPT !.minval = minmaxResult'[1],
                                            !.maxval = minmaxResult'[2]]
                /\ ret' = TRUE
  /\ px' = NoPixels
  /\ replayFBO' = FBOAfter(cmds', replayFBO)
  /\ UNCHANGED <<client, env, m_Textures, phase, messages, progs, histogramBuf, pickResultBuf,
                 pickIB, pickVB, buffers, idx, outSize, viewport>>

-----------------------------------------------------------------------------
(* GLReplay::GetHistogram                                                     *)

\* GetHistogram without the range check of lines 1003-1004
GetHistogramRejects_NoRangeCheck(r) == UnknownTexture(r.texid) \/ ~HasExt

\* the early returns of GetHistogram, lines 1003-1010
GetHistogramRejects(r) ==
  r.minval >= r.maxval \/ UnknownTexture(r.texid) \/ ~HasExt

\* cdata->HistogramMax = maxval + maxval * 1e-6f
NudgedMax(maxval) == maxval + maxval \div Micro

\* lines 1079-1107
GetHistogramUBO(r) ==
  UBOWrite(CommonUBO(r) @@
           [HistogramMin |-> r.minval, HistogramMax |-> NudgedMax(r.maxval),
            HistogramChannels |-> 15, HistogramFlags |-> 0])

\* lines 1152-1168: bind, clear to zero, dispatch, barrier, readback
GetHistogramDispatchCmds ==
  << Cmd("BindBufferBase", 0, DebugData.histogramBuf),
     Cmd("ClearBufferData", DebugData.histogramBuf, 0),
     Cmd("UseProgram", progs.histogram, 0),
     Cmd("DispatchCompute", progs.histogram, 0),
     Cmd("MemoryBarrier", SSBO_BIT, 0),
     Cmd("GetBufferSubData", DebugData.histogramBuf, 0) >>

GetHistogramCmds(r, lvl) ==
  LET tex   == SampledTex(r.texid)
      clamp == ClampMaxLevel(r.texid)
  IN  BlitCmds(r.texid, replayFBO) \o BindCmds(tex) \o ClampCmds(tex, clamp, lvl)
      \o GetHistogramDispatchCmds \o RestoreCmds(tex, clamp, lvl)

\* the histogram buffer left as the previous request wrote it
ClearedBuf_NoClear(cs, buf) == buf

\* the buffer the histogram pass accumulates into: cleared if the command
\* stream clears it before the dispatch
ClearedBuf(cs, buf) ==
  IF \E i \in 1..Len(cs) : cs[i].c = "ClearBufferData" THEN ZeroBuf ELSE buf

\* lines 1163-1174: read back uvec4 per bucket, keep the x components
CompressHistogram(buf) == [i \in 1..HGRAM_NUM_BUCKETS |-> buf[4 * (i - 1) + 1]]

GetHistogram(r) ==
  /\ phase = "ready"
  /\ op' = "GetHistogram"
  /\ req' = r
  /\ IF GetHistogramRejects(r)
       THEN /\ ret' = FALSE
            /\ cmds' = << >>
            /\ out' = Unwritten
            /\ UNCHANGED <<ubo, maxLevel, histogramBuf>>
       ELSE LET tex == SampledTex(r.texid)
            IN  /\ ubo' = GetHistogramUBO(r)
                /\ cmds' = GetHistogramCmds(r, maxLevel[tex])
                /\ histogramBuf' =
                     IF ProgramRuns(progs.histogram)
                       THEN HistogramPass(ClearedBuf(cmds', histogramBuf), tex, r.mip, ubo')
                       ELSE ClearedBuf(cmds', histogramBuf)
                /\ maxLevel' = [maxLevel EXCEPT ![tex] = LevelAfter(cmds', tex, @)]
                /\ out' = [Unwritten EXCEPT !.histogram = CompressHistogram(histogramBuf')]
                /\ ret' = TRUE
  /\ px' = NoPixels
  /\ replayFBO' = FBOAfter(cmds', replayFBO)
  /\ UNCHANGED <<client, env, m_Textures, phase, messages, progs, minmaxTileResult, minmaxResult,
                 pickResultBuf, pickIB, pickVB, buffers, idx, outSize, viewport>>

-----------------------------------------------------------------------------
(* GLReplay::PickVertex: the index normaliser, lines 1318-1455                *)

\* uint32_t arithmetic
Wrap32(n) == n % UINT32

\* the bytes glGetBufferSubData copies into the zeroed idxs array: at most
\* RDCMIN(uint32(bufsize) - uint32(offset), numIndices * stride) bytes from
\* the byte offset; a range outside the buffer is a GL error and copies nothing
ReadLen(c) ==
  RDCMIN(Wrap32(Len(c.ibData) - c.indexByteOffset),
         Wrap32(c.numIndices * c.indexByteStride))

IdxBytes(c) ==
  LET n  == c.numIndices * c.indexByteStride
      ok == c.indexByteOffset + ReadLen(c) <= Len(c.ibData)
  IN  [k \in 1..n |->
         IF ok /\ k <= ReadLen(c) THEN c.ibData[c.indexByteOffset + k] ELSE 0]

\* idxs8[i], idxs16[i] and, for every other stride, idxs[i] with byte *idxs
\* (i counts from 0)
RawIndex(bytes, stride, i) ==
  IF stride = 1 THEN bytes[i + 1]
  ELSE IF stride = 2 THEN bytes[2 * i + 1] + BYTE * bytes[2 * i + 2]
  ELSE bytes[i + 1]

\* uint32_t idxclamp
IdxClamp(baseVertex) == IF baseVertex < 0 THEN Wrap32(-baseVertex) ELSE 0

\* the loop body: clamp to 0 below idxclamp, else apply baseVertex
NormalizeIndex(raw, baseVertex) ==
  IF raw < IdxClamp(baseVertex) THEN 0
  ELSE IF baseVertex < 0 THEN Wrap32(raw - IdxClamp(baseVertex))
  ELSE IF baseVertex > 0 THEN Wrap32(raw + baseVertex)
  ELSE raw

\* outidxs
OutIdxs(c) ==
  [k \in 1..c.numIndices |->
     NormalizeIndex(RawIndex(IdxBytes(c), c.indexByteStride, k - 1), c.baseVertex)]

\* minIndex and maxIndex after the loop: first index, then running min and max
RECURSIVE TrackMin(_, _, _), TrackMax(_, _, _)
TrackMin(o, k, m) ==
  IF k > Len(o) THEN m ELSE TrackMin(o, k + 1, IF k = 1 THEN o[1] ELSE RDCMIN(o[k], m))
TrackMax(o, k, m) ==
  IF k > Len(o) THEN m ELSE TrackMax(o, k + 1, IF k = 1 THEN o[1] ELSE RDCMAX(o[k], m))

\* ib: the index buffer's GL name, 0 without indices (lines 1325-1326)
IndexBufferName(c) == IF c.indexByteStride # 0 /\ c.indexResourceId # NullId THEN 51 ELSE 0

\* outidxs, minIndex, maxIndex at line 1455; without an index buffer
\* minIndex = 0 and maxIndex = numIndices (lines 1318-1319)
IndexRange(c) ==
  IF IndexBufferName(c) # 0
    THEN [outidxs |-> OutIdxs(c),
          minIndex |-> TrackMin(OutIdxs(c), 1, 0),
          maxIndex |-> TrackMax(OutIdxs(c), 1, c.numIndices)]
    ELSE [outidxs |-> << >>, minIndex |-> 0, maxIndex |-> c.numIndices]

\* names glGenBuffers can return for the staging buffers
StagingNames == {41, 42, 43}

\* glGenBuffers: a name that is not in use (the lowest)
GenBuffer(live) ==
  CHOOSE n \in StagingNames \ live : \A m \in StagingNames \ live : n <= m

\* bytes the index staging buffer must hold: numIndices * sizeof(uint32_t)
IBBytes(c) == c.numIndices * 4

\* bytes the vertex staging buffer must hold: (maxIndex + 1) * sizeof(Vec4f),
\* maxIndex clamped to the vertex count (line 1463)
VBBytes(c, maxIndex) == (RDCMIN(maxIndex, c.numVerts) + 1) * 16

\* "resize up on demand", lines 1334 and 1465
MustGrow(st, bytes) == st.buf = 0 \/ st.size < bytes

\* a staging buffer reallocated to the exact size of every request
Grown_ToFit(st, bytes, live) ==
  IF st.buf = 0 \/ st.size # bytes
    THEN [buf |-> GenBuffer(live \ {st.buf}), size |-> bytes] ELSE st

\* lines 1334-1344, 1465-1475: delete the buffer, generate one, allocate it
\* and record its size; the buffers that exist change with it
Grown(st, bytes, live) ==
  IF MustGrow(st, bytes)
    THEN [buf |-> GenBuffer(live \ {st.buf}), size |-> bytes] ELSE st

LiveAfter(st, bytes, live) ==
  IF MustGrow(st, bytes)
    THEN (live \ {st.buf}) \cup {Grown(st, bytes, live).buf} ELSE live

GrowCmds(st, bytes, live) ==
  IF MustGrow(st, bytes)
    THEN << Cmd("DeleteBuffers", st.buf, 0),
            Cmd("GenBuffers", Grown(st, bytes, live).buf, 0),
            Cmd("NamedBufferData", Grown(st, bytes, live).buf, bytes) >>
    ELSE << >>

\* lines 1331-1344: the index staging buffer, touched only with an index buffer
StageIB(st, c, live) ==
  IF IndexBufferName(c) = 0 THEN st ELSE Grown(st, IBBytes(c), live)

LiveAfterIB(st, c, live) ==
  IF IndexBufferName(c) = 0 THEN live ELSE LiveAfter(st, IBBytes(c), live)

\* lines 1463-1475: the vertex staging buffer
StageVB(st, c, maxIndex, live) == Grown(st, VBBytes(c, maxIndex), live)

-----------------------------------------------------------------------------
(* GLReplay::PickVertex: the pick pass and the resolution, lines 1496-1589    *)

\* A candidate is 4 words: vertid and, for triangle meshes, the vec3
\* intersectionPoint; for other meshes, idx, len, depth.
IntersectionPoint(c) == <<c.w1, c.w2, c.w3>>
CandLen(c)   == c.w2
CandDepth(c) == c.w3

TriangleTopologies ==
  {"TriangleList", "TriangleStrip", "TriangleFan", "TriangleList_Adj",
   "TriangleStrip_Adj"}

\* bool isTriangleMesh, lines 1273-1306
IsTriangleMesh(c) == c.topology \in TriangleTopologies

\* cdata->meshMode
MeshMode(c) ==
  CASE c.topology = "TriangleList"      -> 1
    [] c.topology = "TriangleStrip"     -> 2
    [] c.topology = "TriangleFan"       -> 3
    [] c.topology = "TriangleList_Adj"  -> 4
    [] c.topology = "TriangleStrip_Adj" -> 5
    [] OTHER                            -> 0

\* (a - b).Length() orders as its square
DistSq(a, b) ==
  (a[1] - b[1]) * (a[1] - b[1]) + (a[2] - b[2]) * (a[2] - b[2])
  + (a[3] - b[3]) * (a[3] - b[3])

\* the number of candidates the loops look at
NumExamined_Unclamped(numResults) == numResults

NumExamined(numResults) == RDCMIN(maxMeshPicks, numResults)

\* pickResults[i - 1] of the mapped buffer: past the list's end the read
\* returns bytes that are no candidate
Slot(pr, i) == IF i \in DOMAIN pr THEN pr[i] ELSE StaleCand

\* the list entries the loops of lines 1526-1541 and 1561-1580 read, in
\* order (zero-based): entry 0 as the first closest, then every i below the
\* loop bound
ReadCmds(numResults) ==
  IF numResults > 0
    THEN << Cmd("ReadPickResult", 0, 0) >>
         \o [k \in 1..(NumExamined(numResults) - 1) |-> Cmd("ReadPickResult", k, 0)]
    ELSE << >>

\* lines 1529-1541: closestPickDistance is the first candidate's distance and
\* is not updated when closest moves
RECURSIVE ClosestTriangle(_, _, _, _, _)
ClosestTriangle(pr, n, ray, i, closest) ==
  IF i > n THEN closest
  ELSE ClosestTriangle(pr, n, ray, i + 1,
         IF DistSq(IntersectionPoint(Slot(pr, i)), ray) < DistSq(IntersectionPoint(Slot(pr, 1)), ray)
           THEN i ELSE closest)

\* the comparison without the vertex id tie-break
CloserOther_NoTieBreak(a, b) ==
  \/ CandLen(a) < CandLen(b)
  \/ (CandLen(a) = CandLen(b) /\ CandDepth(a) < CandDepth(b))

\* lines 1575-1578
CloserOther(a, b) ==
  \/ CandLen(a) < CandLen(b)
  \/ (CandLen(a) = CandLen(b) /\ CandDepth(a) < CandDepth(b))
  \/ (CandLen(a) = CandLen(b) /\ CandDepth(a) = CandDepth(b) /\ a.vertid < b.vertid)

\* lines 1563-1580
RECURSIVE ClosestOther(_, _, _, _)
ClosestOther(pr, n, i, closest) ==
  IF i > n THEN closest
  ELSE ClosestOther(pr, n, i + 1, IF CloserOther(Slot(pr, i), Slot(pr, closest)) THEN i ELSE closest)

\* lines 1513-1588: the vertex id returned for the result buffer contents
Resolve(buf, isTri, ray) ==
  IF buf.numResults > 0
    THEN IF isTri
           THEN Slot(buf.results, ClosestTriangle(buf.results, NumExamined(buf.numResults),
                                                  ray, 2, 1)).vertid
           ELSE Slot(buf.results, ClosestOther(buf.results, NumExamined(buf.numResults),
                                               2, 1)).vertid
    ELSE NONE

\* the orders in which the invocations of the pick pass can append the hits
AppendOrders(h) ==
  {o \in [1..Cardinality(h) -> h] : \A i, j \in 1..Cardinality(h) : o[i] = o[j] => i = j}

\* the dispatch without the reset
PickReset_Kept(buf) == buf

\* lines 1496-1498: the counter is reset to zero before the dispatch
PickReset(buf) == [buf EXCEPT !.numResults = 0]

\* the pick pass (glsl/mesh.comp): every hit takes the next slot from the
\* counter; a hit whose slot is inside the list is stored, the other slots
\* keep what they held
MeshPickPass(old, order) ==
  [numResults |-> old.numResults + Len(order),
   results    |-> [k \in 1..maxMeshPicks |->
                     IF k > old.numResults /\ k - old.numResults <= Len(order)
                       THEN order[k - old.numResults] ELSE old.results[k]]]

\* lines 1264-1314
PickVertexUBO(c, ray) ==
  UBOWrite([rayPosX |-> ray[1], rayPosY |-> ray[2], rayPosZ |-> ray[3], rayDir |-> 1,
            use_indices |-> IF c.indexByteStride # 0 THEN 1 ELSE 0,
            numVerts |-> c.numIndices, meshMode |-> MeshMode(c),
            unproject |-> 0, mvp |-> 1, coords |-> 1, viewport |-> 1])

\* the staging buffers and their uploads, lines 1331-1494
StagingCmds(c) ==
  LET live1 == LiveAfterIB(pickIB, c, buffers)
      ib    == StageIB(pickIB, c, buffers)
      vb    == StageVB(pickVB, c, IndexRange(c).maxIndex, live1)
  IN  (IF IndexBufferName(c) # 0
         THEN GrowCmds(pickIB, IBBytes(c), buffers)
              \o << Cmd("GetBufferSubData", IndexBufferName(c), ReadLen(c)),
                    Cmd("BufferSubData", ib.buf, IBBytes(c)) >>
         ELSE << >>)
      \o GrowCmds(pickVB, VBBytes(c, IndexRange(c).maxIndex), live1)
      \o << Cmd("BufferSubData", vb.buf, VBBytes(c, IndexRange(c).maxIndex)) >>

\* lines 1496-1511: reset the counter, dispatch, barrier, read the counter
PickDispatchCmds(c) ==
  << Cmd("BufferSubData", DebugData.pickResultBuf, 0),
     Cmd("DispatchCompute", progs.meshPick, c.numIndices \div 128 + 1),
     Cmd("MemoryBarrier", ATOMIC_BIT + SSBO_BIT, 0),
     Cmd("GetBufferSubData", DebugData.pickResultBuf, 0) >>

PickVertexCmds(c, numResults) ==
  << Cmd("UseProgram", progs.meshPick, 0),
     Cmd("BindBufferBase", 0, DebugData.UBO0), Cmd("MapUnmapUBO", 0, 0) >>
  \o StagingCmds(c) \o PickDispatchCmds(c)
  \o (IF numResults > 0 THEN << Cmd("MapBuffer", DebugData.pickResultBuf, 0) >> ELSE << >>)
  \o ReadCmds(numResults)

\* PickVertex without its early return
PickVertexRejects_Never == FALSE

\* the early return of PickVertex, lines 1187-1188
PickVertexRejects == ~HasExt

PickVertex ==
  /\ phase = "ready"
  /\ op' = "PickVertex"
  /\ req' = cfg
  /\ IF PickVertexRejects
       THEN /\ ret' = NONE
            /\ cmds' = << >>
            /\ UNCHANGED <<ubo, pickResultBuf, pickIB, pickVB, buffers, idx>>
       ELSE \E order \in AppendOrders(hits) :
              /\ ubo' = PickVertexUBO(cfg, rayPos)
              /\ idx' = IndexRange(cfg)
              /\ pickIB' = StageIB(pickIB, cfg, buffers)
              /\ pickVB' = StageVB(pickVB, cfg, idx'.maxIndex,
                                  LiveAfterIB(pickIB, cfg, buffers))
              /\ buffers' = LiveAfter(pickVB, VBBytes(cfg, idx'.maxIndex),
                                     LiveAfterIB(pickIB, cfg, buffers))
              /\ pickResultBuf' =
                   IF ProgramRuns(progs.meshPick)
                     THEN MeshPickPass(PickReset(pickResultBuf), order)
                     ELSE IF progs.meshPick # 0 THEN PickReset(pickResultBuf)
                     ELSE pickResultBuf
              /\ cmds' = PickVertexCmds(cfg, pickResultBuf'.numResults)
              /\ ret' = Resolve(pickResultBuf', IsTriangleMesh(cfg), rayPos)
  /\ out' = Unwritten
  /\ px' = NoPixels
  /\ UNCHANGED <<client, env, m_Textures, phase, messages, progs, maxLevel, minmaxTileResult,
                 minmaxResult, histogramBuf, ctx>>

-----------------------------------------------------------------------------
(* GLReplay::PickPixel, lines 1591-1691                                       *)

\* channel masks of texDisplay: red, green, blue, alpha all on; green alone
AllChannels == 15
GreenOnly == 2

\* lines 1604-1605: DebugData.outWidth = DebugData.outHeight = 1.0f and
\* glViewport(0, 0, 1, 1), whatever the two were before
PickOutSize_Kept(os) == os

PickOutSize(os) == <<1, 1>>

PickViewport(vp) == <<1, 1>>

\* the formats of line 1655 that carry a stencil
HasStencil(fmt) == fmt \in {"DEPTH24_STENCIL8", "DEPTH32F_STENCIL8", "STENCIL_INDEX8"}

\* width of a mip level
MipWidth(details, mip) == RDCMAX(1, details.width \div (2 ^ mip))

\* the texel the 1x1 target's only pixel shows. The display shader takes the
\* fragment position, flips it against the output height and subtracts the
\* offset: column 0 - xOffset, row (outHeight - 1) - yOffset. Nothing is
\* drawn where the viewport is empty or the position is outside the level.
ShownTexel(details, mip, xOffset, yOffset, os, vp) ==
  LET col == 0 - xOffset
      row == (os[2] - 1) - yOffset
  IN  IF /\ vp[1] >= 1 /\ vp[2] >= 1
         /\ col \in 0..(MipWidth(details, mip) - 1)
         /\ row \in 0..(details.height - 1)
        THEN row * MipWidth(details, mip) + col + 1
        ELSE 0

\* the colour glClearBufferfv leaves, line 1602
ClearedPixel == <<0, 0, 0, 0>>

\* RenderTextureInternal with every channel on, then glReadPixels: colour
\* formats show the texel, depth formats the depth in red, a stencil-only
\* format its stencil in red
FirstPass(details, mip, xOffset, yOffset, os, vp) ==
  LET t == ShownTexel(details, mip, xOffset, yOffset, os, vp)
      d == TexData(IF details.curType = "RENDERBUFFER"
                     THEN details.renderbufferReadTex ELSE details.name, mip)
      s == StencilData(details.name, mip)
  IN  IF t = 0 THEN ClearedPixel
      ELSE IF details.internalFormat = "STENCIL_INDEX8" /\ t \in DOMAIN s
        THEN <<(s[t] * Micro) \div 255, 0, 0, FloatOf(1)>>
      ELSE IF HasStencil(details.internalFormat) /\ t \in DOMAIN d
        THEN <<d[t], 0, 0, FloatOf(1)>>
      ELSE IF t \in DOMAIN d THEN <<d[t], d[t], d[t], FloatOf(1)>>
      ELSE ClearedPixel

\* RenderTextureInternal with green alone, then glReadPixels into
\* stencilpixel: the stencil arrives in component ch, the others are 0
StencilPass(details, mip, xOffset, yOffset, os, vp, ch) ==
  LET t == ShownTexel(details, mip, xOffset, yOffset, os, vp)
      s == StencilData(details.name, mip)
  IN  [i \in 1..4 |-> IF i = ch /\ t \in DOMAIN s THEN s[t] ELSE 0]

\* the stencil taken from stencilpixel[0] alone
WithStencil_FirstComponent(pixel, stencilpixel, fmt) ==
  [i \in 1..4 |->
     IF i = 2 THEN (stencilpixel[1] * Micro) \div 255
     ELSE IF i = 1 /\ fmt = "STENCIL_INDEX8" THEN 0
     ELSE pixel[i]]

\* lines 1683-1688: pixel[1] from stencilpixel, pixel[0] zeroed for a
\* stencil-only format
WithStencil(pixel, stencilpixel, fmt) ==
  [i \in 1..4 |->
     IF i = 2 THEN (RDCMAX(stencilpixel[1], stencilpixel[2]) * Micro) \div 255
     ELSE IF i = 1 /\ fmt = "STENCIL_INDEX8" THEN 0
     ELSE pixel[i]]

\* one RenderTextureInternal call and the read-back that follows it
RenderCmds(texture, mask, xOffset, yOffset) ==
  << Cmd("TexDisplay", texture, mask), Cmd("RenderTexture", xOffset, yOffset),
     Cmd("ReadPixels", 1, 1) >>

\* m_Textures after m_pDriver->m_Textures[texture] of lines 1632 and 1653:
\* std::map::operator[] inserts an entry for an id that has none
Looked(texture) ==
  IF texture \in DOMAIN m_Textures THEN m_Textures
  ELSE m_Textures @@ (texture :> DefaultTexture)

\* RenderTextureInternal uploads its own parameter block into UBOs[0]
PickPixel(texture, x, y, mip) ==
  /\ phase = "ready"
  /\ op' = "PickPixel"
  /\ req' = [texid |-> texture, x |-> x, y |-> y, mip |-> mip]
  /\ ret' = TRUE
  /\ outSize' = PickOutSize(outSize)
  /\ viewport' = PickViewport(viewport)
  /\ m_Textures' = Looked(texture)
  /\ \E ch \in {1, 2} :
       LET details == m_Textures'[texture]
           first   == FirstPass(details, mip, 0 - x, 0 - y, outSize', viewport')
           second  == StencilPass(details, mip, 0 - x, 0 - y, outSize', viewport', ch)
       IN  IF HasStencil(details.internalFormat)
             THEN /\ px' = [pixel |-> first, stencilpixel |-> second]
                  /\ out' = [Unwritten EXCEPT
                               !.pixel = WithStencil(first, second, details.internalFormat)]
                  /\ cmds' = << Cmd("MakeCurrent", DebugCtx, 0),
                                Cmd("BindFramebuffer", DebugData.pickPixelFBO, 0),
                                Cmd("BindReadFramebuffer", DebugData.pickPixelFBO, 0),
                                Cmd("ClearBuffer", 0, 0),
                                Cmd("Viewport", viewport'[1], viewport'[2]) >>
                              \o RenderCmds(texture, AllChannels, 0 - x, 0 - y)
                              \o RenderCmds(texture, GreenOnly, 0 - x, 0 - y)
             ELSE /\ px' = [pixel |-> first, stencilpixel |-> << >>]
                  /\ out' = [Unwritten EXCEPT !.pixel = first]
                  /\ cmds' = << Cmd("MakeCurrent", DebugCtx, 0),
                                Cmd("BindFramebuffer", DebugData.pickPixelFBO, 0),
                                Cmd("BindReadFramebuffer", DebugData.pickPixelFBO, 0),
                                Cmd("ClearBuffer", 0, 0),
                                Cmd("Viewport", viewport'[1], viewport'[2]) >>
                              \o RenderCmds(texture, AllChannels, 0 - x, 0 - y)
  /\ ubo' = UBOInvalid
  /\ replayFBO' = FBOAfter(cmds', replayFBO)
  /\ UNCHANGED <<client, env, phase, messages, progs, maxLevel, minmaxTileResult,
                 minmaxResult, histogramBuf, pickResultBuf, pickIB, pickVB, buffers, idx>>

-----------------------------------------------------------------------------
(* GLReplay::DeleteDebugData, lines 739-827                                   *)

\* DeleteDebugData without lines 807-808
DeletedBuffers_KeepsStaging ==
  << DebugData.feedbackBuffer, DebugData.UBO0, DebugData.pickResultBuf,
     DebugData.minmaxTileResult, DebugData.minmaxResult, DebugData.histogramBuf,
     DebugData.axisFrustumBuffer, DebugData.triHighlightBuffer >>

\* the buffer names DeleteDebugData passes to glDeleteBuffers, in order
\* (lines 749, 776, 807-809, 814-816, 823-824); deleting the name 0 or a name
\* that is not a buffer is ignored
DeletedBuffers ==
  << DebugData.feedbackBuffer, DebugData.UBO0, pickIB.buf, pickVB.buf,
     DebugData.pickResultBuf, DebugData.minmaxTileResult, DebugData.minmaxResult,
     DebugData.histogramBuf, DebugData.axisFrustumBuffer,
     DebugData.triHighlightBuffer >>

DeleteDebugData ==
  /\ phase = "ready"
  /\ phase' = "deleted"
  /\ op' = "DeleteDebugData"
  /\ req' = [texid |-> NullId]
  /\ ret' = FALSE
  /\ out' = Unwritten
  /\ cmds' = [i \in 1..Len(DeletedBuffers) |-> Cmd("DeleteBuffers", DeletedBuffers[i], 0)]
  /\ buffers' = buffers \ {DeletedBuffers[i] : i \in 1..Len(DeletedBuffers)}
  /\ px' = NoPixels
  /\ UNCHANGED <<client, env, m_Textures, messages, progs, maxLevel, ubo, minmaxTileResult,
                 minmaxResult, histogramBuf, pickResultBuf, pickIB, pickVB, idx, ctx>>

-----------------------------------------------------------------------------
(* DevDriver::BaseProtocolClient (unnamed/part_000).  The client's methods    *)
(* run on the client thread, one step per stretch of code between two points  *)
(* where the message channel's thread can get in: a wait, or a read of        *)
(* m_state or m_pSession that a later statement relies on.  The callbacks     *)
(* SessionEstablished and SessionTerminated run on the message channel's      *)
(* thread; neither blocks, and each is one step.                              *)

\* values of Result that occur
Results == {"Success", "Error", "Unavailable"}

\* sessions the message channel can create
MaxSessions == 2
SessionIds == 1..MaxSessions

\* a null SharedPointer<ISession>
NullSession == 0

\* int retries = 20
Retries == 20

\* the client after its constructor, lines 30-41, and a channel without sessions
ClientConstructed ==
  /\ m_state = "Disconnected"
  /\ m_pSession = NullSession
  /\ m_connectResult = "Error"
  /\ m_pendingOperationEvent = FALSE
  /\ sessions = [s \in SessionIds |-> "unused"]
  /\ pc = "idle"
  /\ cop = "none"
  /\ entry = [state |-> "Disconnected", session |-> NullSession]
  /\ result = "Error"
  /\ retries = 0
  /\ waits = 0
  /\ calls = << >>
  /\ orphanRet = "idle"
  /\ signalled = [by |-> "none", state |-> "Disconnected", session |-> NullSession]
  /\ wokenBy = "none"
  /\ callback = [name |-> "none", session |-> NullSession, reason |-> "Error",
                 calls |-> << >>]

\* a method is entered on the client thread
Enter(name) ==
  /\ pc = "idle"
  /\ cop' = name
  /\ entry' = [state |-> m_state, session |-> m_pSession]
  /\ waits' = 0

\* m_state after EstablishSession failed, with line 169 left out
FailedConnectState_Kept == m_state

\* m_state after EstablishSession failed, line 169
FailedConnectState == "Disconnected"

\* Connect, lines 136-154 and, in a state other than Disconnected, line 172
ConnectBegin ==
  /\ Enter("Connect")
  /\ result' = "Error"
  /\ wokenBy' = "none"
  /\ IF m_state = "Disconnected"
       THEN /\ m_pSession' = NullSession
            /\ calls' = IF m_pSession # NullSession THEN <<"Clear", "ResetState">> ELSE << >>
            /\ m_state' = "Connecting"
            /\ m_pendingOperationEvent' = FALSE
            /\ pc' = "establish"
       ELSE /\ calls' = << >>
            /\ pc' = "idle"
            /\ UNCHANGED <<m_pSession, m_state, m_pendingOperationEvent>>
  /\ UNCHANGED <<m_connectResult, sessions, retries, orphanRet, signalled, callback>>

\* the session EstablishSession creates: the lowest one not used yet
NewSession == CHOOSE s \in SessionIds : sessions[s] = "unused" /\
                                        \A t \in SessionIds : sessions[t] = "unused" => s <= t

\* Connect, lines 156-170: EstablishSession returns r; on Success the session
\* exists at the channel and Connect enters Wait(kInfiniteTimeout)
ConnectEstablish(r) ==
  /\ pc = "establish"
  /\ result' = r
  /\ calls' = Append(calls, "EstablishSession")
  /\ IF r = "Success"
       THEN /\ \E s \in SessionIds : sessions[s] = "unused"
            /\ sessions' = [sessions EXCEPT ![NewSession] = "pending"]
            /\ waits' = waits + 1
            /\ pc' = "wait"
            /\ UNCHANGED m_state
       ELSE /\ m_state' = FailedConnectState
            /\ pc' = "idle"
            /\ UNCHANGED <<sessions, waits>>
  /\ UNCHANGED <<m_pSession, m_connectResult, m_pendingOperationEvent, cop, entry,
                 retries, orphanRet, signalled, wokenBy, callback>>

\* Connect, line 163: the wait returns once the event is signalled
ConnectWake ==
  /\ pc = "wait"
  /\ m_pendingOperationEvent
  /\ wokenBy' = signalled.by
  /\ pc' = "wake"
  /\ UNCHANGED <<m_state, m_pSession, m_connectResult, m_pendingOperationEvent, sessions,
                 cop, entry, result, retries, waits, calls, orphanRet, signalled, callback>>

\* Connect, lines 164 and 172
ConnectReturn ==
  /\ pc = "wake"
  /\ result' = m_connectResult
  /\ pc' = "idle"
  /\ UNCHANGED <<m_state, m_pSession, m_connectResult, m_pendingOperationEvent, sessions,
                 cop, entry, retries, waits, calls, orphanRet, signalled, wokenBy, callback>>

\* the outcomes of a call through a null m_pSession: the thread faults, or
\* the call does nothing and the thread goes on
NullCall(next) == {"crashed", next}

\* ISession::CloseSession: the channel starts closing the session
CloseSession(s) ==
  [sessions EXCEPT ![s] = IF @ \in {"pending", "open"} THEN "closing" ELSE @]

\* ISession::OrphanSession: the session delivers no callback any more
OrphanSession(s) == [sessions EXCEPT ![s] = "orphaned"]

\* Disconnect, lines 177-178
DisconnectBegin ==
  /\ Enter("Disconnect")
  /\ calls' = <<"ResetState">>
  /\ pc' = IF m_state = "Connected" THEN "close" ELSE "idle"
  /\ UNCHANGED <<m_state, m_pSession, m_connectResult, m_pendingOperationEvent, sessions,
                 result, retries, orphanRet, signalled, wokenBy, callback>>

\* Disconnect, lines 180-182
DisconnectClose ==
  /\ pc = "close"
  /\ m_pendingOperationEvent' = FALSE
  /\ retries' = Retries
  /\ IF m_pSession # NullSession
       THEN /\ sessions' = CloseSession(m_pSession)
            /\ calls' = Append(calls, "CloseSession")
            /\ pc' = "loop"
       ELSE /\ calls' = Append(calls, "NullDeref")
            /\ pc' \in NullCall("loop")
            /\ UNCHANGED sessions
  /\ UNCHANGED <<m_state, m_pSession, m_connectResult, cop, entry, result, waits,
                 orphanRet, signalled, wokenBy, callback>>

\* Disconnect, line 183 and the return
DisconnectLoop ==
  /\ pc = "loop"
  /\ pc' = IF m_pSession = NullSession THEN "idle" ELSE "timedwait"
  /\ UNCHANGED <<m_state, m_pSession, m_connectResult, m_pendingOperationEvent, sessions,
                 cop, entry, result, retries, waits, calls, orphanRet, signalled, wokenBy,
                 callback>>

\* retries < 1, line 188
OutOfRetries(n) == n < 1

\* Disconnect, lines 186-194: the timed wait returns, signalled or not
DisconnectWait ==
  /\ pc = "timedwait"
  /\ waits' = waits + 1
  /\ retries' = retries - 1
  /\ IF OutOfRetries(retries')
       THEN pc' = "orphan" /\ orphanRet' = "loop"
       ELSE pc' = "loop" /\ UNCHANGED orphanRet
  /\ UNCHANGED <<m_state, m_pSession, m_connectResult, m_pendingOperationEvent, sessions,
                 cop, entry, result, calls, signalled, wokenBy, callback>>

\* Orphan is called on the client thread
OrphanBegin ==
  /\ Enter("Orphan")
  /\ calls' = << >>
  /\ orphanRet' = "idle"
  /\ pc' = "orphan"
  /\ UNCHANGED <<m_state, m_pSession, m_connectResult, m_pendingOperationEvent, sessions,
                 result, retries, signalled, wokenBy, callback>>

\* Orphan, line 55
OrphanCheck ==
  /\ pc = "orphan"
  /\ pc' = IF m_pSession # NullSession THEN "orphan_close" ELSE "orphan_state"
  /\ UNCHANGED <<m_state, m_pSession, m_connectResult, m_pendingOperationEvent, sessions,
                 cop, entry, result, retries, waits, calls, orphanRet, signalled, wokenBy,
                 callback>>

\* Orphan, lines 57-59
OrphanClose ==
  /\ pc = "orphan_close"
  /\ IF m_pSession # NullSession
       THEN /\ sessions' = OrphanSession(m_pSession)
            /\ calls' = calls \o <<"OrphanSession", "CloseSession", "Clear">>
            /\ m_pSession' = NullSession
            /\ pc' = "orphan_state"
       ELSE /\ calls' = Append(calls, "NullDeref")
            /\ pc' \in NullCall("orphan_state")
            /\ UNCHANGED <<sessions, m_pSession>>
  /\ UNCHANGED <<m_state, m_connectResult, m_pendingOperationEvent, cop, entry, result,
                 retries, waits, orphanRet, signalled, wokenBy, callback>>

\* m_state after Orphan, with line 62 left out
OrphanedState_Kept == m_state

\* m_state after Orphan, line 62
OrphanedState == "Disconnected"

\* Orphan, line 62 and the return to the caller
OrphanState ==
  /\ pc = "orphan_state"
  /\ m_state' = OrphanedState
  /\ pc' = orphanRet
  /\ UNCHANGED <<m_pSession, m_connectResult, m_pendingOperationEvent, sessions, cop,
                 entry, result, retries, waits, calls, orphanRet, signalled, wokenBy, callback>>

\* SessionEstablished, lines 94-105, delivered for a session whose handshake
\* completed
SessionEstablished(s) ==
  /\ sessions[s] = "pending"
  /\ sessions' = [sessions EXCEPT ![s] = "open"]
  /\ m_state' = "Connected"
  /\ m_connectResult' = "Success"
  /\ m_pSession' = s
  /\ m_pendingOperationEvent' = TRUE
  /\ signalled' = [by |-> "SessionEstablished", state |-> m_state', session |-> m_pSession']
  /\ callback' = [name |-> "SessionEstablished", session |-> s, reason |-> "Success",
                  calls |-> <<"Signal">>]
  /\ UNCHANGED <<pc, cop, entry, result, retries, waits, calls, orphanRet, wokenBy>>

\* m_connectResult after SessionTerminated, the reason dropped
TerminatedResult_Error(reason) == "Error"

\* m_connectResult after SessionTerminated, line 126
TerminatedResult(reason) == reason

\* SessionTerminated, lines 114-132, delivered for a session that is neither
\* orphaned nor terminated yet
SessionTerminated(s, terminationReason) ==
  /\ sessions[s] \in {"pending", "open", "closing"}
  /\ sessions' = [sessions EXCEPT ![s] = "terminated"]
  /\ m_state' = "Disconnected"
  /\ m_connectResult' = TerminatedResult(terminationReason)
  /\ m_pendingOperationEvent' = TRUE
  /\ m_pSession' = NullSession
  /\ signalled' = [by |-> "SessionTerminated", state |-> m_state', session |-> m_pSession]
  /\ callback' = [name |-> "SessionTerminated", session |-> s,
                  reason |-> terminationReason,
                  calls |-> <<"Signal", "Clear", "ResetState">>]
  /\ UNCHANGED <<pc, cop, entry, result, retries, waits, calls, orphanRet, wokenBy>>

-----------------------------------------------------------------------------
(* Requests and specifications                                                *)

\* requested histogram ranges <<minval, maxval>>, as whole floats: max at and
\* above zero, and the two degenerate shapes min = max and min > max
Ranges == {<<-1, 0>>, <<0, 1>>, <<0, 0>>, <<1, 0>>}

MinMaxRequests ==
  [texid : ResourceIds, sliceFace : Slices, mip : Mips, sample : Samples]

HistogramRequests ==
  {[texid |-> t, sliceFace |-> sl, mip |-> m, sample |-> sa,
    minval |-> FloatOf(rg[1]), maxval |-> FloatOf(rg[2])] :
     t \in ResourceIds, sl \in Slices, m \in Mips, sa \in Samples, rg \in Ranges}

\* TEXTURE_MAX_LEVEL values a texture of the capture can have (1000: GL default)
InitialLevels == {0, 1000}

\* a mesh without an index buffer
PlainMesh(topology) ==
  [topology |-> topology, numIndices |-> 3, indexByteStride |-> 0,
   indexResourceId |-> NullId, indexByteOffset |-> 0, baseVertex |-> 0,
   ibData |-> << >>, numVerts |-> 3]

Cand(v, a, b, c) == [vertid |-> v, w1 |-> a, w2 |-> b, w3 |-> c]

NoRequest ==
  /\ op = "none" /\ req = [texid |-> NullId] /\ ret = FALSE /\ cmds = << >>
  /\ out = Unwritten
  /\ idx = [outidxs |-> << >>, minIndex |-> 0, maxIndex |-> 0]
  /\ px = NoPixels

\* a 4x4 debug viewport, and the default framebuffer bound on the replay
\* context
DefaultContexts == viewport = <<4, 4>> /\ replayFBO = <<0, 0>>

Constructed ==
  /\ m_Textures = CaptureTextures
  /\ phase = "constructed"
  /\ messages = << >>
  /\ progs = NoPrograms
  /\ ubo = UBOInvalid
  /\ minmaxTileResult = <<Undef, Undef>>
  /\ minmaxResult = <<Undef, Undef>>
  /\ histogramBuf = UninitBuf
  /\ pickResultBuf = NoPickResult
  /\ pickIB = NoStaging
  /\ pickVB = NoStaging
  /\ buffers = {}
  /\ outSize = <<0, 0>>
  /\ NoRequest
  /\ ClientConstructed

\* the texture statistics requests, with one small mesh for PickVertex
Init ==
  /\ HasExt \in BOOLEAN
  /\ IsGLES = FALSE
  /\ build = "ok"
  /\ rayPos = <<0, 0, 0>>
  /\ cfg = PlainMesh("PointList")
  /\ hits = {Cand(1, 0, 0, 1)}
  /\ \E l \in InitialLevels : maxLevel = [t \in TexNames |-> l]
  /\ DefaultContexts
  /\ Constructed

Next ==
  \/ InitDebugData
  \/ \E r \in MinMaxRequests : GetMinMax(r)
  \/ \E r \in HistogramRequests : GetHistogram(r)
  \/ PickVertex
  \/ PickPixel(1, 0, 0, 0)
  \/ DeleteDebugData

Spec == Init /\ [][Next]_vars

-----------------------------------------------------------------------------
(* PickVertex alone, over every small candidate set and append order          *)

\* vertex ids of candidates
MaxVertId == 2

\* values of a candidate's second and third float
Coords == {0, 1}

CandDomain == {Cand(v, 0, b, c) : v \in 0..MaxVertId, b \in Coords, c \in Coords}

\* candidates for the sets that overflow the list
FewCands == {Cand(0, 0, 0, 1), Cand(1, 0, 1, 0), Cand(2, 0, 1, 1), Cand(1, 0, 0, 0)}

HitSets ==
  {h \in SUBSET CandDomain : Cardinality(h) <= maxMeshPicks}
  \cup {h \in SUBSET FewCands : Cardinality(h) = maxMeshPicks + 1}

InitPick ==
  /\ HasExt = TRUE
  /\ IsGLES = FALSE
  /\ build = "ok"
  /\ rayPos = <<0, 0, 0>>
  /\ cfg \in {PlainMesh("TriangleList"), PlainMesh("PointList")}
  /\ hits \in HitSets
  /\ maxLevel = [t \in TexNames |-> 1000]
  /\ DefaultContexts
  /\ Constructed

NextPick ==
  \/ InitDebugData
  \/ PickVertex

SpecPick == InitPick /\ [][NextPick]_vars

-----------------------------------------------------------------------------
(* PickVertex alone, over indexed meshes: the index normaliser                *)

\* number of indices of a mesh
MaxIndices == 2

ByteVals == {0, BYTE - 1}

BaseVertices == {-3, 0, 2}

IndexedMesh(n, st, b, d) ==
  [topology |-> "PointList", numIndices |-> n, indexByteStride |-> st,
   indexResourceId |-> 1, indexByteOffset |-> 0, baseVertex |-> b,
   ibData |-> d, numVerts |-> 3]

\* every index buffer of n indices of 1, 2 or 4 bytes over ByteVals
IndexedMeshes ==
  UNION {{IndexedMesh(n, st, b, d) : d \in [1..(n * st) -> ByteVals]} :
           n \in 0..MaxIndices, st \in {1, 2, 4}, b \in BaseVertices}

InitIdx ==
  /\ HasExt = TRUE
  /\ IsGLES = FALSE
  /\ build = "ok"
  /\ rayPos = <<0, 0, 0>>
  /\ cfg \in IndexedMeshes
  /\ hits = {}
  /\ maxLevel = [t \in TexNames |-> 1000]
  /\ DefaultContexts
  /\ Constructed

SpecIdx == InitIdx /\ [][NextPick]_vars

\* PickVertex over index buffers of every size up to MaxBufSize, read from
\* every byte offset up to one past that size
MaxBufSize == 4
ByteOffsets == 0..(MaxBufSize + 1)

ReadMeshes ==
  {[IndexedMesh(n, st, 0, [k \in 1..len |-> BYTE - 1]) EXCEPT !.indexByteOffset = off] :
     n \in 0..MaxIndices, st \in {1, 2, 4}, off \in ByteOffsets, len \in 0..MaxBufSize}

InitRead ==
  /\ HasExt = TRUE
  /\ IsGLES = FALSE
  /\ build = "ok"
  /\ rayPos = <<0, 0, 0>>
  /\ cfg \in ReadMeshes
  /\ hits = {}
  /\ maxLevel = [t \in TexNames |-> 1000]
  /\ DefaultContexts
  /\ Constructed

SpecRead == InitRead /\ [][NextPick]_vars

-----------------------------------------------------------------------------
(* The staging buffers over a sequence of picks of different meshes, and the  *)
(* lifetime of the buffers from InitDebugData to DeleteDebugData              *)

\* index values of the staged index buffers
StageIndexVals == {0, 2}

\* meshes of 1..MaxIndices indices, with and without an index buffer; an
\* index buffer repeats one index, which is then the largest the mesh uses
StageMeshes ==
  {[PlainMesh("PointList") EXCEPT !.numIndices = n] : n \in 1..MaxIndices}
  \cup UNION {{IndexedMesh(n, 1, 0, [i \in 1..n |-> v]) : v \in StageIndexVals} :
                n \in 1..MaxIndices}

\* the caller selects another mesh for its next PickVertex
SelectMesh ==
  /\ cfg' \in StageMeshes \ {cfg}
  /\ UNCHANGED <<client, HasExt, IsGLES, build, rayPos, hits, gpu, call, ctx>>

\* one request of each other kind
StageMinMax == [texid |-> 1, sliceFace |-> 0, mip |-> 0, sample |-> 0]

StageHistogram ==
  [texid |-> 1, sliceFace |-> 0, mip |-> 0, sample |-> 0,
   minval |-> FloatOf(0), maxval |-> FloatOf(1)]

InitStage ==
  /\ HasExt \in BOOLEAN
  /\ IsGLES = FALSE
  /\ build = "ok"
  /\ rayPos = <<0, 0, 0>>
  /\ cfg \in StageMeshes
  /\ hits = {Cand(0, 0, 0, 0)}
  /\ maxLevel = [t \in TexNames |-> 1000]
  /\ DefaultContexts
  /\ Constructed

NextStage ==
  \/ InitDebugData
  \/ SelectMesh
  \/ PickVertex
  \/ GetMinMax(StageMinMax)
  \/ GetHistogram(StageHistogram)
  \/ PickPixel(1, 0, 0, 0)
  \/ DeleteDebugData

SpecStage == InitStage /\ [][NextStage]_vars

-----------------------------------------------------------------------------
(* The requests after every outcome of the program builds of InitDebugData    *)

InitBuild ==
  /\ HasExt \in BOOLEAN
  /\ IsGLES \in BOOLEAN
  /\ build \in Builds
  /\ rayPos = <<0, 0, 0>>
  /\ cfg \in {PlainMesh("TriangleList"), IndexedMesh(1, 1, 0, <<0>>)}
  /\ hits = {Cand(1, 0, 0, 1)}
  /\ \E l \in InitialLevels : maxLevel = [t \in TexNames |-> l]
  /\ DefaultContexts
  /\ Constructed

NextBuild ==
  \/ InitDebugData
  \/ PickVertex
  \/ \E m \in Mips : GetMinMax([StageMinMax EXCEPT !.mip = m])
  \/ \E m \in Mips : GetHistogram([StageHistogram EXCEPT !.mip = m])
  \/ DeleteDebugData

SpecBuild == InitBuild /\ [][NextBuild]_vars

\* PickPixel and the statistics of the same ids, from every viewport and
\* every pair of replay framebuffer bindings earlier replay work can have left
Viewports == {<<0, 0>>, <<1, 1>>, <<4, 4>>}
Bindings == {<<0, 0>>, <<7, 8>>}

\* ids PickPixel is called with: all textures of the capture and the id it
\* has no texture for
PixelIds == {1, 2, 3, 4, 5, 6}

\* ids the statistics are asked for: the renderbuffer and the unknown id
PixelStatIds == {2, 3}

InitPixel ==
  /\ HasExt = TRUE
  /\ IsGLES = FALSE
  /\ build = "ok"
  /\ rayPos = <<0, 0, 0>>
  /\ cfg = PlainMesh("PointList")
  /\ hits = {}
  /\ maxLevel = [t \in TexNames |-> 1000]
  /\ viewport \in Viewports
  /\ replayFBO \in Bindings
  /\ Constructed

NextPixel ==
  \/ InitDebugData
  \/ \E t \in PixelIds, x \in {0, 1} : PickPixel(t, x, 0, 0)
  \/ \E t \in PixelStatIds : GetMinMax([StageMinMax EXCEPT !.texid = t])
  \/ \E t \in PixelStatIds : GetHistogram([StageHistogram EXCEPT !.texid = t])

SpecPixel == InitPixel /\ [][NextPixel]_vars

\* PickVertex called again and again while the candidates under the cursor
\* change: none, one, two, and more than the list holds
RepickHits ==
  {{}, {Cand(0, 0, 0, 1)}, {Cand(1, 0, 1, 0), Cand(2, 0, 1, 1)}, FewCands}

\* the mesh or the cursor moved: the next pick pass finds other candidates
SelectHits ==
  /\ hits' \in RepickHits \ {hits}
  /\ UNCHANGED <<client, HasExt, IsGLES, build, rayPos, cfg, gpu, call, ctx>>

InitRepick ==
  /\ HasExt = TRUE
  /\ IsGLES = FALSE
  /\ build = "ok"
  /\ rayPos = <<0, 0, 0>>
  /\ cfg \in {PlainMesh("TriangleList"), PlainMesh("PointList")}
  /\ hits \in RepickHits
  /\ maxLevel = [t \in TexNames |-> 1000]
  /\ DefaultContexts
  /\ Constructed

NextRepick ==
  \/ InitDebugData
  \/ SelectHits
  \/ PickVertex

SpecRepick == InitRepick /\ [][NextRepick]_vars

-----------------------------------------------------------------------------
(* The protocol client: its methods called one after the other on the client  *)
(* thread, and the message channel delivering its callbacks at any time       *)

InitClient ==
  /\ HasExt = TRUE
  /\ IsGLES = FALSE
  /\ build = "ok"
  /\ rayPos = <<0, 0, 0>>
  /\ cfg = PlainMesh("PointList")
  /\ hits = {}
  /\ maxLevel = [t \in TexNames |-> 1000]
  /\ DefaultContexts
  /\ Constructed

ClientStep ==
  \/ ConnectBegin
  \/ \E r \in Results : ConnectEstablish(r)
  \/ ConnectWake
  \/ ConnectReturn
  \/ DisconnectBegin
  \/ DisconnectClose
  \/ DisconnectLoop
  \/ DisconnectWait
  \/ OrphanBegin
  \/ OrphanCheck
  \/ OrphanClose
  \/ OrphanState

ChannelStep ==
  \/ \E s \in SessionIds : SessionEstablished(s)
  \/ \E s \in SessionIds, r \in Results : SessionTerminated(s, r)

NextClient ==
  \/ ClientStep /\ UNCHANGED <<env, gpu, call, ctx>>
  \/ ChannelStep /\ UNCHANGED <<env, gpu, call, ctx>>

SpecClient == InitClient /\ [][NextClient]_vars

-----------------------------------------------------------------------------
(* Properties                                                                 *)

IsDispatch(c) == c.c = "DispatchCompute"

NumDispatches(cs) == Cardinality({i \in 1..Len(cs) : IsDispatch(cs[i])})

StatsRequest == op \in {"GetMinMax", "GetHistogram"}

\* the request named an id that is null or has no entry, or compute is
\* missing, or a histogram was asked over an empty range
InvalidStatsRequest ==
  \/ req.texid = NullId
  \/ req.texid \notin DOMAIN m_Textures
  \/ ~HasExt
  \/ (op = "GetHistogram" /\ req.minval >= req.maxval)

\* C1: GetMinMax and GetHistogram return failure, with no GL command issued
\* and no output argument written, whenever the resource id is null or not in
\* the texture map, compute is absent, or (GetHistogram) min >= max.
C1_InvalidRequestRejected ==
  (StatsRequest /\ InvalidStatsRequest) =>
    (ret = FALSE /\ cmds = << >> /\ out = Unwritten)

C1_Witness ==
  /\ op = "GetHistogram" /\ HasExt /\ req.texid \in DOMAIN m_Textures
  /\ req.texid # NullId /\ req.minval >= req.maxval
  /\ ret = FALSE /\ cmds = << >>
  /\ histogramBuf # UninitBuf

Occurrences(seq, x) == Cardinality({i \in 1..Len(seq) : seq[i] = x})

\* C2: without compute, after InitDebugData every GetMinMax and GetHistogram
\* has returned false and every PickVertex NONE, no request has dispatched a
\* compute pass, and each portability warning for a disabled compute feature
\* is in the message log exactly once.
C2_NoComputeDisablesFeatures ==
  (~HasExt /\ phase = "ready") =>
    /\ StatsRequest => ret = FALSE
    /\ op = "PickVertex" => ret = NONE
    /\ NumDispatches(cmds) = 0
    /\ Occurrences(messages, WarnMinMax) = 1
    /\ Occurrences(messages, WarnMeshPick) = 1

C2_Witness ==
  ~HasExt /\ op = "PickVertex" /\ ret = NONE /\ Occurrences(messages, WarnMeshPick) = 1

\* the candidates the resolution looks at
Examined == 1..RDCMIN(maxMeshPicks, pickResultBuf.numResults)

PickedTriangles ==
  op = "PickVertex" /\ IsTriangleMesh(req) /\ pickResultBuf.numResults >= 1

PickedOther ==
  op = "PickVertex" /\ ~IsTriangleMesh(req) /\ pickResultBuf.numResults >= 1

RayDistSq(c) == DistSq(IntersectionPoint(c), rayPos)

\* C3: for a triangle mesh with at least one candidate, PickVertex returns the
\* vertex id of a candidate whose intersection point is nearest to the ray
\* origin among the examined candidates.
C3_TriangleNearest ==
  PickedTriangles =>
    \E i \in Examined :
      /\ ret = pickResultBuf.results[i].vertid
      /\ \A j \in Examined :
           RayDistSq(pickResultBuf.results[i]) <= RayDistSq(pickResultBuf.results[j])

\* (len, depth, vertid) of a, lexicographically at most that of b
LexLeq(a, b) ==
  \/ a.w2 < b.w2
  \/ (a.w2 = b.w2 /\ a.w3 < b.w3)
  \/ (a.w2 = b.w2 /\ a.w3 = b.w3 /\ a.vertid <= b.vertid)

\* C4: for a non-triangle mesh with at least one candidate, PickVertex returns
\* the vertex id of the examined candidate that is least by (screen distance,
\* depth, vertex id).
C4_OtherLexLeast ==
  PickedOther =>
    \E i \in Examined :
      /\ ret = pickResultBuf.results[i].vertid
      /\ \A j \in Examined : LexLeq(pickResultBuf.results[i], pickResultBuf.results[j])

\* two candidates at the same screen distance and depth, the higher vertex id
\* appended first, and the lower one returned
C4_Witness ==
  /\ PickedOther /\ pickResultBuf.numResults >= 2
  /\ pickResultBuf.results[1].w2 = pickResultBuf.results[2].w2
  /\ pickResultBuf.results[1].w3 = pickResultBuf.results[2].w3
  /\ pickResultBuf.results[1].vertid > pickResultBuf.results[2].vertid
  /\ ret = pickResultBuf.results[2].vertid

\* C5: for a candidate set that fits the list, the vertex id PickVertex
\* returned is the one it returns for every other order in which the pick pass
\* can append the same candidates, for triangle and other meshes alike.
C5_OrderIndependent ==
  (op = "PickVertex" /\ Cardinality(hits) <= maxMeshPicks) =>
    \A o \in AppendOrders(hits) :
      Resolve(MeshPickPass(PickReset(pickResultBuf), o), IsTriangleMesh(req), rayPos) = ret

\* the unsigned little-endian value of the stride bytes stored at position i
\* (from 0) of the raw index buffer
RECURSIVE LittleEndian(_, _, _)
LittleEndian(data, from, n) ==
  IF n = 0 THEN 0 ELSE data[from] + BYTE * LittleEndian(data, from + 1, n - 1)

RawAt(c, i) ==
  LittleEndian(c.ibData, c.indexByteOffset + c.indexByteStride * i + 1, c.indexByteStride)

Normalized(c, i) == Max2(RawAt(c, i) + c.baseVertex, 0)

NormalizedSet(c) == {Normalized(c, i) : i \in 0..(c.numIndices - 1)}

\* PickVertex has normalised a non-empty index buffer
PickedIndexed ==
  op = "PickVertex" /\ HasExt /\ phase = "ready"
    /\ IndexBufferName(req) # 0 /\ req.numIndices >= 1

\* C6: for index byte stride 1, 2 and 4 and any signed base vertex, the i-th
\* normalised index is max(raw_i + baseVertex, 0) with raw_i the unsigned
\* stride-byte value at position i of the raw index buffer, and the tracked
\* minimum and maximum are the minimum and maximum of the normalised values.
C6_NormalizedIndices ==
  PickedIndexed =>
    /\ \A i \in 0..(req.numIndices - 1) : idx.outidxs[i + 1] = Normalized(req, i)
    /\ \A v \in NormalizedSet(req) : idx.minIndex <= v /\ v <= idx.maxIndex
    /\ idx.minIndex \in NormalizedSet(req)
    /\ idx.maxIndex \in NormalizedSet(req)

\* the texel values the histogram pass reads for the request
RequestTexels(r) == TexData(SampledTex(r.texid), r.mip)

AcceptedHistogram == op = "GetHistogram" /\ ret = TRUE

\* C7: for every accepted GetHistogram request (min < max, max <= 0
\* included) the upper bound uploaded to the histogram pass is strictly
\* greater than the requested max, and a texel equal to max is counted in the
\* last bucket.
C7_MaxInLastBucket ==
  AcceptedHistogram =>
    /\ ubo.HistogramMax > req.maxval
    /\ \A k \in 1..Len(RequestTexels(req)) :
         RequestTexels(req)[k] = req.maxval =>
           /\ Counted(RequestTexels(req)[k], ubo.HistogramMin, ubo.HistogramMax)
           /\ Bucket(RequestTexels(req)[k], ubo.HistogramMin, ubo.HistogramMax)
                = HGRAM_NUM_BUCKETS - 1

\* the counts the histogram pass produces for a request from a zeroed buffer
FreshHistogram(r) ==
  CompressHistogram(HistogramPass(ZeroBuf, SampledTex(r.texid), r.mip, GetHistogramUBO(r)))

\* C8: every accepted GetHistogram returns the counts that its arguments and
\* the texture alone determine (those counted from a zeroed result buffer),
\* whatever requests ran before it, so two calls with identical arguments
\* return identical counts.
C8_HistogramIdempotent ==
  AcceptedHistogram => out.histogram = FreshHistogram(req)

SumSeq(q) == IF Len(q) = 0 THEN 0 ELSE
  LET RECURSIVE Sum(_)
      Sum(k) == IF k = 0 THEN 0 ELSE q[k] + Sum(k - 1)
  IN  Sum(Len(q))

\* a histogram that counted every texel of the mip, the two texels equal to
\* max in the last bucket
C8_Witness ==
  /\ AcceptedHistogram /\ req.texid = 1 /\ req.mip = 0
  /\ req.minval = FloatOf(0) /\ req.maxval = FloatOf(1)
  /\ out.histogram[HGRAM_NUM_BUCKETS] = 2
  /\ SumSeq(out.histogram) = 3

IsBarrier(c) == c.c = "MemoryBarrier"

\* a command that reads what a compute pass wrote
IsConsumer(c) == c.c \in {"DispatchCompute", "GetBufferSubData", "MapBuffer"}

\* C9: in every request a memory barrier is issued between any compute
\* dispatch and each later command that consumes a pass's output (the next
\* dispatch, the readback of the result buffer).
C9_BarrierBeforeConsumer ==
  \A i \in 1..Len(cmds) : \A j \in (i + 1)..Len(cmds) :
    (IsDispatch(cmds[i]) /\ IsConsumer(cmds[j])) =>
      \E k \in (i + 1)..(j - 1) : IsBarrier(cmds[k])

C9_Witness ==
  /\ op = "GetMinMax" /\ ret = TRUE /\ NumDispatches(cmds) = 2
  /\ \E j \in 1..Len(cmds) : cmds[j].c = "GetBufferSubData"

\* TEXTURE_MAX_LEVEL of the sampled texture as the request read it
LevelRead(cs, tex) ==
  LET i == CHOOSE i \in 1..Len(cs) : cs[i].c = "GetTexParameterMaxLevel" /\ cs[i].x = tex
  IN  cs[i].y

\* TEXTURE_MAX_LEVEL of the sampled texture when command i of the request runs
LevelAt(i) ==
  LET tex == SampledTex(req.texid)
  IN  LevelAfter(SubSeq(cmds, 1, i - 1), tex, LevelRead(cmds, tex))

AcceptedStats == StatsRequest /\ ret = TRUE

\* C10: when GetMinMax or GetHistogram dispatches its compute pass for mip
\* level m, TEXTURE_MAX_LEVEL of the sampled texture equals the requested mip m.
C10_LevelIsRequestedMip ==
  AcceptedStats =>
    \A i \in 1..Len(cmds) : IsDispatch(cmds[i]) => LevelAt(i) = req.mip

\* C10, amended: when GetMinMax or GetHistogram dispatches its compute pass,
\* TEXTURE_MAX_LEVEL of the sampled texture equals the index of the texture's
\* last mip level (details.mips - 1), whatever mip was requested.
C10_LevelIsLastMip ==
  AcceptedStats =>
    \A i \in 1..Len(cmds) : IsDispatch(cmds[i]) => LevelAt(i) = m_Textures[req.texid].mips - 1

\* mip 0 of a texture with two mips requested, the level set to 1
C10_Witness ==
  /\ AcceptedStats /\ req.mip = 0 /\ m_Textures[req.texid].mips = 2
  /\ \E i \in 1..Len(cmds) :
       /\ cmds[i] = Cmd("TexParameterMaxLevel", SampledTex(req.texid), 1)
       /\ \E j \in (i + 1)..Len(cmds) : IsDispatch(cmds[j])

\* C11: when GetMinMax or GetHistogram returns, with success or failure,
\* TEXTURE_MAX_LEVEL of every texture, the sampled one included, is what it
\* was before the call, for every initial value of the parameter.
C11_MaxLevelRestored ==
  [][op' \in {"GetMinMax", "GetHistogram"} => maxLevel' = maxLevel]_vars

\* the level was 1000, the request set it to the last mip and set it back
C11_Witness ==
  /\ AcceptedStats
  /\ LevelRead(cmds, SampledTex(req.texid)) = 1000
  /\ \E i \in 1..Len(cmds) : \E j \in (i + 1)..Len(cmds) :
       /\ cmds[i] = Cmd("TexParameterMaxLevel", SampledTex(req.texid),
                        m_Textures[req.texid].mips - 1)
       /\ cmds[j] = Cmd("TexParameterMaxLevel", SampledTex(req.texid), 1000)
  /\ maxLevel[SampledTex(req.texid)] = 1000

\* the last request generated the buffer st now names
Recreated(st) == \E i \in 1..Len(cmds) : cmds[i] = Cmd("GenBuffers", st.buf, 0)

\* every upload into the buffer st names fits its recorded capacity
UploadsFit(st, cs) ==
  \A i \in 1..Len(cs) :
    (cs[i].c = "BufferSubData" /\ cs[i].x = st.buf) => cs[i].y <= st.size

\* C12: over any sequence of PickVertex calls the recorded capacities of the
\* index and vertex staging buffers never decrease; a staging buffer is
\* destroyed and recreated only when none exists or the request needs more
\* bytes than the recorded capacity; and after every upload the recorded
\* capacity is at least the number of bytes uploaded.
C12_StagingGrowOnly ==
  [][PickVertex =>
       /\ pickIB'.size >= pickIB.size
       /\ pickVB'.size >= pickVB.size
       /\ Recreated(pickIB)' => (pickIB.buf = 0 \/ pickIB.size < IBBytes(req'))
       /\ Recreated(pickVB)' => (pickVB.buf = 0 \/ pickVB.size < VBBytes(req', idx'.maxIndex))
       /\ UploadsFit(pickIB', cmds')
       /\ UploadsFit(pickVB', cmds')]_vars

\* a mesh smaller than an earlier one was staged into the buffers kept from it
C12_Witness ==
  /\ op = "PickVertex" /\ ret # NONE /\ IndexBufferName(req) # 0
  /\ pickIB.size > IBBytes(req) /\ pickVB.size > VBBytes(req, idx.maxIndex)
  /\ ~Recreated(pickIB) /\ ~Recreated(pickVB)
  /\ \E i \in 1..Len(cmds) : cmds[i] = Cmd("BufferSubData", pickIB.buf, IBBytes(req))
  /\ \E i \in 1..Len(cmds) : cmds[i] = Cmd("BufferSubData", pickVB.buf, VBBytes(req, idx.maxIndex))

\* a step of one of the requests
RequestStep ==
  \/ PickVertex
  \/ \E r \in MinMaxRequests : GetMinMax(r)
  \/ \E r \in HistogramRequests : GetHistogram(r)
  \/ \E t \in ResourceIds : PickPixel(t, 0, 0, 0)

\* the buffers that exist and that command i of cs deletes
DeletesLive(cs, live) ==
  {cs[i].x : i \in {j \in 1..Len(cs) : cs[j].c = "DeleteBuffers"}} \cap live

\* C13: between InitDebugData and DeleteDebugData a request deletes no buffer
\* of the subsystem, except that PickVertex deletes a staging buffer it
\* replaces by a larger one, so the staging buffers that exist are the one
\* index and the one vertex staging buffer recorded; after DeleteDebugData no
\* buffer that InitDebugData or a PickVertex created exists.
C13_BufferLifetime ==
  [][/\ RequestStep =>
          /\ DeletesLive(cmds', buffers) \subseteq {pickIB.buf, pickVB.buf}
          /\ (pickIB.buf \in DeletesLive(cmds', buffers)) =>
               (PickVertex /\ pickIB'.size > pickIB.size)
          /\ (pickVB.buf \in DeletesLive(cmds', buffers)) =>
               (PickVertex /\ pickVB'.size > pickVB.size)
          /\ buffers' \ StagingNames = buffers \ StagingNames
     /\ (buffers' \cap StagingNames) \subseteq {pickIB'.buf, pickVB'.buf}
     /\ DeleteDebugData => buffers' = {}]_vars

\* DeleteDebugData ran with an index and a vertex staging buffer in existence,
\* each larger than the smallest the meshes need, and deleted both
C13_Witness ==
  /\ phase = "deleted" /\ buffers = {}
  /\ pickIB.buf # 0 /\ pickVB.buf # 0
  /\ pickIB.size > 4 /\ pickVB.size > 16
  /\ \E i \in 1..Len(cmds) : cmds[i] = Cmd("DeleteBuffers", pickIB.buf, 0)
  /\ \E i \in 1..Len(cmds) : cmds[i] = Cmd("DeleteBuffers", pickVB.buf, 0)

\* C14: a compute or render program whose build failed in InitDebugData, by
\* a shader compile error or by a program link error, is stored with the
\* zero handle.
C14_FailedBuildZeroHandle ==
  (phase = "ready" /\ build # "ok") => \A p \in DOMAIN progs : progs[p] = 0

\* C15: whenever the compute program a request needs has the zero handle,
\* GetMinMax and GetHistogram return failure and PickVertex returns NONE, and
\* no request dispatches a compute pass with the zero program.
C15_ZeroProgramDisabled ==
  /\ (op = "GetMinMax" /\ (progs.minmaxTile = 0 \/ progs.minmaxResult = 0)) => ret = FALSE
  /\ (op = "GetHistogram" /\ progs.histogram = 0) => ret = FALSE
  /\ (op = "PickVertex" /\ progs.meshPick = 0) => ret = NONE
  /\ \A i \in 1..Len(cmds) : IsDispatch(cmds[i]) => cmds[i].x # 0

\* C16: PickPixel called with a resource id that has no texture issues no GL
\* command and leaves the texture map as it was, so a later GetMinMax or
\* GetHistogram on that id still fails as an unknown texture.
C16_UnknownPickIsNoOp ==
  /\ (op = "PickPixel" /\ req.texid \notin DOMAIN CaptureTextures)
       => (cmds = << >> /\ m_Textures = CaptureTextures)
  /\ (op \in {"GetMinMax", "GetHistogram"} /\ req.texid \notin DOMAIN CaptureTextures)
       => ret = FALSE

\* the pixel a request returns when the texture is drawn with output size and
\* viewport 1x1 at offset (-x, -y): a function of the request and the
\* texture alone
PickedAt1x1(textures, r) ==
  LET details == textures[r.texid]
      first   == FirstPass(details, r.mip, 0 - r.x, 0 - r.y, <<1, 1>>, <<1, 1>>)
      second  == StencilPass(details, r.mip, 0 - r.x, 0 - r.y, <<1, 1>>, <<1, 1>>, 1)
  IN  IF HasStencil(details.internalFormat)
        THEN WithStencil(first, second, details.internalFormat)
        ELSE first

\* C17: the value PickPixel returns does not depend on the output size or
\* the viewport earlier operations left: every call sets both to 1x1 and
\* renders the texture with the offset (-x, -y).
C17_PickIgnoresEarlierView ==
  [][(\E t \in PixelIds, x \in {0, 1} : PickPixel(t, x, 0, 0)) =>
       /\ outSize' = <<1, 1>> /\ viewport' = <<1, 1>>
       /\ \E i \in 1..Len(cmds') : /\ cmds'[i] = Cmd("Viewport", 1, 1)
                                   /\ \A j \in 1..Len(cmds') :
                                        cmds'[j].c = "RenderTexture" => i < j
       /\ \A j \in 1..Len(cmds') :
            cmds'[j].c = "RenderTexture" => cmds'[j].x = 0 - req'.x /\ cmds'[j].y = 0 - req'.y
       /\ out'.pixel = PickedAt1x1(m_Textures', req')]_vars

\* PickPixel returned the second texel of the 2D texture and of the
\* renderbuffer, neither of them the cleared colour
C17_Witness ==
  /\ op = "PickPixel" /\ req.texid \in {1, 2} /\ req.x = 1
  /\ out.pixel = PickedAt1x1(m_Textures, req) /\ out.pixel # ClearedPixel
  /\ out.pixel # PickedAt1x1(m_Textures, [req EXCEPT !.x = 0])

\* the channel masks of the RenderTextureInternal calls of a stream, in order
PassMasks(cs) ==
  LET passes == SelectSeq(cs, LAMBDA c : c.c = "TexDisplay")
  IN  [i \in 1..Len(passes) |-> passes[i].y]

\* C18: for the depth-stencil formats and the stencil-only format PickPixel
\* renders a second pass with only green enabled, takes the stencil as the
\* larger of the first two components read back, divided by 255, and stores
\* it in channel 1; channels 0, 2 and 3 keep the first pass's values, except
\* that channel 0 is 0 for the stencil-only format. Every other format is
\* rendered in exactly one pass.
C18_StencilSecondPass ==
  op = "PickPixel" =>
    LET fmt == m_Textures[req.texid].internalFormat
    IN  IF fmt \in {"DEPTH24_STENCIL8", "DEPTH32F_STENCIL8", "STENCIL_INDEX8"}
          THEN /\ PassMasks(cmds) = <<AllChannels, GreenOnly>>
               /\ out.pixel[2] =
                    (Max2(px.stencilpixel[1], px.stencilpixel[2]) * Micro) \div 255
               /\ out.pixel[3] = px.pixel[3] /\ out.pixel[4] = px.pixel[4]
               /\ out.pixel[1] = IF fmt = "STENCIL_INDEX8" THEN 0 ELSE px.pixel[1]
          ELSE /\ PassMasks(cmds) = <<AllChannels>>
               /\ out.pixel = px.pixel

\* PickPixel on the stencil-only texture: the stencil 3 arrived in the second
\* component, channel 1 holds 3/255 and channel 0, non-zero after the first
\* pass, was zeroed
C18_Witness ==
  /\ op = "PickPixel" /\ m_Textures[req.texid].internalFormat = "STENCIL_INDEX8"
  /\ px.stencilpixel = <<0, 3, 0, 0>>
  /\ out.pixel[2] = (3 * Micro) \div 255
  /\ px.pixel[1] # 0 /\ out.pixel[1] = 0

\* the zero-based list entries the last request read
ReadEntries == {cmds[i].x : i \in {j \in 1..Len(cmds) : cmds[j].c = "ReadPickResult"}}

\* C19: when the pick pass counted more candidates than the list holds,
\* PickVertex examines exactly the first maxMeshPicks entries, reads no entry
\* at or beyond the capacity, and still returns the vertex id of one of them.
C19_OverflowClamped ==
  (op = "PickVertex" /\ pickResultBuf.numResults > maxMeshPicks) =>
    /\ ReadEntries = 0..(maxMeshPicks - 1)
    /\ \A e \in ReadEntries : e < maxMeshPicks
    /\ ret # NONE
    /\ \E k \in 1..maxMeshPicks : ret = pickResultBuf.results[k].vertid

\* the pass counted one candidate more than the list holds; the last one
\* appended is in no slot, and a vertex id was returned
C19_Witness ==
  /\ op = "PickVertex" /\ pickResultBuf.numResults = maxMeshPicks + 1
  /\ \E h \in hits : \A k \in 1..maxMeshPicks : pickResultBuf.results[k] # h
  /\ ReadEntries = 0..(maxMeshPicks - 1)
  /\ ret \in 0..MaxVertId

\* an accepted statistics request on a renderbuffer
RenderbufferStats ==
  /\ AcceptedStats
  /\ m_Textures[req.texid].curType = "RENDERBUFFER"

\* positions of the commands of one kind in the last request's stream
Positions(kind) == {i \in 1..Len(cmds) : cmds[i].c = kind}

\* C20: for a renderbuffer source GetMinMax and GetHistogram blit the
\* renderbuffer to its staging texture before any dispatch and bind the
\* staging texture, never the renderbuffer itself; the replay context's draw
\* and read framebuffer bindings are the same after the request as before.
C20_RenderbufferBlit ==
  [][((\E r \in MinMaxRequests : GetMinMax(r)) \/ (\E r \in HistogramRequests : GetHistogram(r)))
       => /\ replayFBO' = replayFBO
          /\ RenderbufferStats' =>
               /\ Positions("BlitFramebuffer")' # {}
               /\ Positions("DispatchCompute")' # {}
               /\ \A b \in Positions("BlitFramebuffer")', d \in Positions("DispatchCompute")' : b < d
               /\ \A i \in Positions("BindTexture")' :
                    /\ cmds'[i].x = m_Textures[req'.texid].renderbufferReadTex
                    /\ cmds'[i].x # m_Textures[req'.texid].name
               /\ Positions("BindTexture")' # {}]_vars

\* a statistics request on the renderbuffer, made while framebuffers 7 and 8
\* were bound on the replay context: it blitted with the renderbuffer's own
\* framebuffers bound, and 7 and 8 are bound again
C20_Witness ==
  /\ RenderbufferStats /\ replayFBO = <<7, 8>>
  /\ \E i \in Positions("BlitFramebuffer") :
       /\ cmds[i - 2] = Cmd("BindDrawFramebuffer", 22, 0)
       /\ cmds[i - 1] = Cmd("BindReadFramebuffer", 21, 0)
       /\ cmds[i + 1] = Cmd("BindDrawFramebuffer", 7, 0)
       /\ cmds[i + 2] = Cmd("BindReadFramebuffer", 8, 0)
  /\ \E i \in Positions("BindTexture") : cmds[i].x = 13

\* C21: with compute available PickVertex returns NONE exactly when the pick
\* pass of this call counted no candidate; otherwise it returns the vertex id
\* of one of the first min(count, capacity) list entries, each of them
\* written by this call: the counter is reset before the dispatch, so no
\* candidate of an earlier call is returned.
C21_NoneIffNoCandidates ==
  [][(PickVertex /\ HasExt) =>
       LET buf == pickResultBuf'
       IN  /\ buf.numResults = Cardinality(hits)
           /\ ret' = NONE <=> buf.numResults = 0
           /\ buf.numResults > 0 =>
                \E k \in 1..RDCMIN(buf.numResults, maxMeshPicks) :
                  /\ ret' = buf.results[k].vertid
                  /\ buf.results[k] \in hits]_vars

\* one candidate in this call, and behind it in the list a candidate of an
\* earlier call with another vertex id: the first entry's id was returned
C21_Witness ==
  /\ op = "PickVertex" /\ pickResultBuf.numResults = 1
  /\ pickResultBuf.results[1] \in hits
  /\ pickResultBuf.results[2] \notin hits /\ pickResultBuf.results[2] # StaleCand
  /\ ret = pickResultBuf.results[1].vertid
  /\ ret # pickResultBuf.results[2].vertid

\* C29: the parameters a compute pass reads from UBOs[0] are all written by
\* the request that dispatches it: after the buffer is invalidated GetMinMax,
\* GetHistogram and PickVertex each write every field of their parameter
\* block, so no dispatched parameter is left to what the buffer held before.
C29_ParametersAllWritten ==
  /\ AcceptedStats => \A f \in HistogramBlock : ubo[f] # Undef
  /\ (op = "PickVertex" /\ HasExt) => \A f \in MeshPickBlock : ubo[f] # Undef

\* bytes the index buffer holds from the byte offset on
Available(c) ==
  IF c.indexByteOffset > Len(c.ibData) THEN 0 ELSE Len(c.ibData) - c.indexByteOffset

\* the sizes PickVertex passed to glGetBufferSubData for the index buffer
IndexReads ==
  {cmds[i].y : i \in {j \in 1..Len(cmds) : /\ cmds[j].c = "GetBufferSubData"
                                           /\ cmds[j].x = IndexBufferName(req)}}

\* C30: for every index buffer size, byte offset, index count and stride the
\* number of bytes PickVertex reads from the index buffer at the byte offset
\* exceeds neither the bytes the buffer holds from that offset on (0 when the
\* offset is past the end) nor numIndices * stride in 32-bit arithmetic.
C30_IndexReadInBounds ==
  (op = "PickVertex" /\ HasExt /\ IndexBufferName(req) # 0) =>
    \A size \in IndexReads :
      /\ size <= Available(req)
      /\ size <= Wrap32(req.numIndices * req.indexByteStride)

\* C22: Connect called in state Disconnected whose EstablishSession returns a
\* result other than Success returns that result without having waited on the
\* event and leaves the client Disconnected; Connect called in any other state
\* returns Error, calls nothing (EstablishSession included) and leaves m_state,
\* the session pointer, the connect result and the event as they were.
C22_ConnectFailsFast ==
  [][ /\ \A r \in Results \ {"Success"} :
           ConnectEstablish(r) =>
             /\ entry.state = "Disconnected"
             /\ pc' = "idle"
             /\ result' = r
             /\ waits' = 0
             /\ m_state' = "Disconnected"
      /\ (ConnectBegin /\ m_state # "Disconnected") =>
             /\ pc' = "idle"
             /\ result' = "Error"
             /\ calls' = << >>
             /\ waits' = 0
             /\ <<m_state, m_pSession, m_connectResult, m_pendingOperationEvent, sessions>>'
                  = <<m_state, m_pSession, m_connectResult, m_pendingOperationEvent, sessions>>
    ]_vars

\* Connect has returned Unavailable from EstablishSession, a session having
\* been established and terminated before
C22_Witness ==
  /\ cop = "Connect"
  /\ pc = "idle"
  /\ entry.state = "Disconnected"
  /\ result = "Unavailable"
  /\ calls = <<"EstablishSession">>
  /\ m_state = "Disconnected"
  /\ \E s \in SessionIds : sessions[s] = "terminated"

C24_DisconnectTerminates ==
  (cop = "Disconnect" /\ entry.state = "Connected") =>
    /\ pc # "crashed"
    /\ waits <= Retries
    /\ pc \notin {"close", "idle"} =>
         \E i \in DOMAIN calls : calls[i] = "CloseSession"
    /\ pc = "idle" => (m_pSession = NullSession /\ m_state = "Disconnected")

\* C25: Orphan, called in any state, leaves the client Disconnected with no
\* session; a session held when it was called has been orphaned and then closed
\* with Success before the pointer was released; Orphan waits on nothing and
\* does not fault.
C25_OrphanReleases ==
  cop = "Orphan" =>
    /\ pc # "crashed"
    /\ waits = 0
    /\ pc = "idle" =>
         /\ m_state = "Disconnected"
         /\ m_pSession = NullSession
         /\ entry.session # NullSession =>
              /\ calls = <<"OrphanSession", "CloseSession", "Clear">>
              /\ sessions[entry.session] = "orphaned"

C27_SuccessMeansEstablished ==
  [][ ConnectReturn =>
        /\ result' = "Success" => wokenBy = "SessionEstablished"
        /\ wokenBy = "SessionTerminated" => result' # "Success"
    ]_vars

\* C28: however SessionTerminated and SessionEstablished on the channel's
\* thread interleave with Disconnect, Disconnect never calls through a null
\* session pointer: after IsConnected was read as true, the m_pSession it
\* calls CloseSession or OrphanSession on is not null.
C28_NoNullDereference ==
  (cop = "Disconnect" /\ entry.state = "Connected") =>
    \A i \in DOMAIN calls : calls[i] # "NullDeref"

=============================================================================
